---- MODULE Spec2Model ----
(***************************************************************************)
(* Model of the crawl core of ocrdlp-lab: ImageFilter (crawler/filters.py), *)
(* ImageDeduplicator (crawler/deduplicator.py) and the bounded downloader  *)
(* ImageCrawler.download_images (crawler/image_crawler.py).                *)
(*                                                                         *)
(* The specifications share the variables:                                 *)
(*   SpecFilter  one ImageFilter.is_valid_image call on an arbitrary file   *)
(*   SpecDedup   concurrent ImageDeduplicator.is_duplicate calls            *)
(*   Spec        one ImageCrawler.download_images batch                     *)
(*   SpecDir     one ImageDeduplicator.remove_duplicates_from_directory     *)
(*   SpecLabel   one GPT4VImageLabeler.classify_image call                  *)
(*   SpecSearch  ImageCrawler.search_images and search.search_images        *)
(*   SpecCli     one OCRDLPCli.run                                          *)
(*   SpecBatch   one classify_images_batch                                  *)
(*   SpecHttp    one get_with_retry or post_with_retry                      *)
(*   SpecLive    Spec with every enabled step of the batch eventually taken *)
(*   SpecGroups  one get_duplicate_groups on an index                       *)
(*   SpecPipeline  one pipeline_command, step by step                       *)
(*   SpecCalls   successive download_images calls on one ImageCrawler       *)
(***************************************************************************)
EXTENDS Integers, Sequences, FiniteSets, TLC

VARIABLES
    \* ---- ImageFilter ----
    filter_cfg,       \* the ImageFilter instance's fields
    probe_file,       \* what is at the path handed to is_valid_image
    probe_result,     \* how the call ended: [called, exc, val]
    \* ---- ImageDeduplicator ----
    threshold,        \* self.threshold
    hash_db,          \* self.hash_db: insertion-ordered dict, a sequence of [hash, file]
    hash_file,        \* what is stored at hash_db_path
    loaded_db,        \* hash_db as _load_hash_db left it at construction
    dcall,            \* the is_duplicate calls in flight (SpecDedup)
    \* ---- ImageCrawler ----
    urls,             \* the argument of download_images
    content,          \* what each position's URL serves when it answers 200
    max_concurrent,   \* self.max_concurrent
    retry_attempts,   \* self.retry_attempts
    sem,              \* asyncio.Semaphore._value
    task,             \* one _download_single_image coroutine per position
    disk,             \* output_dir: what is stored under image_{i:06d}
    downloaded_urls,  \* self.downloaded_urls
    results,          \* the dict download_images returns
    batch,            \* "idle", "running", "returned" or "raised"
    \* ---- remove_duplicates_from_directory ----
    dir_files,        \* image_files: what the globs list, in their order
    dir_out,          \* the call's outcome: [called, removed, count]
    \* ---- GPT4VImageLabeler ----
    label_in,         \* the image and what the API does: [readable, post, body]
    label_out,        \* how classify_image ended: [called, exc, val]
    \* ---- image search ----
    search_in,        \* the arguments of ImageCrawler.search_images: [engine, max_per_keyword]
    search_st,        \* the position and the locals of ImageCrawler.search_images
    fn_out,           \* how a call of search.search_images ended
    \* ---- OCRDLPCli ----
    cli_in,           \* the command line, the environment and what the operations do
    cli_out,          \* how run ended: [called, exc, val, invoked]
    \* ---- classify_images_batch ----
    batch_in,         \* the environment and the image files of the directory
    batch_st,         \* the call: position, output file, results, return value
    \* ---- http_client ----
    http_in,          \* the wrapper called and what each request would meet
    http_st,          \* the call: position, attempt number, requests made, result
    \* ---- get_duplicate_groups ----
    groups_out,       \* what get_duplicate_groups returned: [called, groups]
    \* ---- pipeline_command ----
    pipe_in,          \* what the steps of the pipeline meet (a CliInputs record)
    pipe_st,          \* the command: position, steps run so far, return value
    \* ---- successive download_images calls ----
    history           \* the earlier calls: what each returned and how its URLs ended

filterVars == <<filter_cfg, probe_file, probe_result>>
dedupVars  == <<threshold, hash_db, hash_file, loaded_db, dcall>>
indexVars  == <<threshold, hash_db, hash_file, loaded_db>>
crawlVars  == <<urls, content, max_concurrent, retry_attempts, sem, task, disk,
                downloaded_urls, results, batch>>
dirVars    == <<dir_files, dir_out>>
labelVars  == <<label_in, label_out>>
searchVars == <<search_in, search_st, fn_out>>
cliVars    == <<cli_in, cli_out>>
batchVars  == <<batch_in, batch_st>>
httpVars   == <<http_in, http_st>>
pipeVars   == <<pipe_in, pipe_st>>
toolVars   == <<dir_files, dir_out, label_in, label_out, search_in, search_st, fn_out,
               cli_in, cli_out, batch_in, batch_st, http_in, http_st, groups_out,
               pipe_in, pipe_st, history>>
vars == <<filter_cfg, probe_file, probe_result, threshold, hash_db, hash_file,
          loaded_db, dcall, urls, content, max_concurrent, retry_attempts, sem,
          task, disk, downloaded_urls, results, batch, dir_files, dir_out,
          label_in, label_out, search_in, search_st, fn_out, cli_in, cli_out,
          batch_in, batch_st, http_in, http_st, groups_out, pipe_in, pipe_st,
          history>>

-----------------------------------------------------------------------------
(* Results of code that may raise: a value, or an exception.                *)

Ret(v)  == [exc |-> FALSE, val |-> v]
Raised  == [exc |-> TRUE, val |-> FALSE]

\* An exception of a given class.
RaisedKind(k) == [exc |-> TRUE, val |-> k]

-----------------------------------------------------------------------------
(* ImageFilter                                                              *)

MinSize     == 300
MaxSize     == 4096
MinFileSize == 5000
MaxFileSize == 10485760
MaxAspect   == 10

AllowedFormats == {"JPEG", "PNG", "WEBP"}

DefaultFilter == [min_size |-> MinSize, max_size |-> MaxSize,
                  min_file_size |-> MinFileSize, max_file_size |-> MaxFileSize,
                  allowed_formats |-> AllowedFormats]

\* The configuration of the tests' fixture except for min_size = 0, under
\* which a zero-dimension image reaches the aspect-ratio division.
LooseFilter == [min_size |-> 0, max_size |-> 2000,
                min_file_size |-> 0, max_file_size |-> MaxFileSize,
                allowed_formats |-> AllowedFormats]

FilterConfigs == {DefaultFilter, LooseFilter}

\* What a path may hold.
NoFile == [exists |-> FALSE]

ImageFile(sz, fmt, w, h, ld, fp) ==
    [exists |-> TRUE, size |-> sz, readable |-> TRUE, decodes |-> TRUE,
     format |-> fmt, width |-> w, height |-> h, loads |-> ld, fp |-> fp]

\* Bytes that PIL cannot identify (also a file cut before its header ends).
JunkFile(sz) ==
    [exists |-> TRUE, size |-> sz, readable |-> TRUE, decodes |-> FALSE,
     format |-> "NONE", width |-> 0, height |-> 0, loads |-> FALSE, fp |-> <<>>]

\* A file that stat() sees and open() cannot read.
UnreadableFile(sz) ==
    [exists |-> TRUE, size |-> sz, readable |-> FALSE, decodes |-> FALSE,
     format |-> "NONE", width |-> 0, height |-> 0, loads |-> FALSE, fp |-> <<>>]

Max2(a, b) == IF a >= b THEN a ELSE b
Min2(a, b) == IF a <= b THEN a ELSE b

\* filepath.stat().st_size: FileNotFoundError on a missing file.
StatSize(f) == IF f.exists THEN Ret(f.size) ELSE Raised

\* Image.open(filepath): OSError / UnidentifiedImageError.
ImageOpen(f) == IF f.exists /\ f.readable /\ f.decodes THEN Ret(TRUE) ELSE Raised

\* max(width, height) / min(width, height) > 10: ZeroDivisionError when the
\* smaller side is 0; for positive integer sides the float quotient exceeds
\* 10 exactly when max > 10 * min.
AspectTooLarge(w, h) ==
    IF Min2(w, h) = 0 THEN Raised ELSE Ret(Max2(w, h) > MaxAspect * Min2(w, h))

\* The body of _check_image_properties' try block.
CheckImagePropertiesBody(cfg, f) ==
    IF ImageOpen(f).exc THEN Raised
    ELSE IF f.format \notin cfg.allowed_formats THEN Ret(FALSE)
    ELSE IF f.width < cfg.min_size \/ f.height < cfg.min_size
            \/ f.width > cfg.max_size \/ f.height > cfg.max_size THEN Ret(FALSE)
    ELSE IF AspectTooLarge(f.width, f.height).exc THEN Raised
    ELSE IF AspectTooLarge(f.width, f.height).val THEN Ret(FALSE)
    ELSE IF ~f.loads THEN Raised
    ELSE Ret(TRUE)

\* except Exception: return False  (an escaping exception is the mutant)
ExceptEscapes(r) == r
ExceptReturnFalse(r) == IF r.exc THEN Ret(FALSE) ELSE r

CheckPropsExcept(r) == ExceptReturnFalse(r)

CheckImageProperties(cfg, f) == CheckPropsExcept(CheckImagePropertiesBody(cfg, f))

\* file_size < min_file_size or file_size > max_file_size
FileSizeRejectedStrict(cfg, sz) == sz <= cfg.min_file_size \/ sz >= cfg.max_file_size
FileSizeRejected(cfg, sz) == sz < cfg.min_file_size \/ sz > cfg.max_file_size

\* The body of is_valid_image's try block.
IsValidImageBody(cfg, f) ==
    IF StatSize(f).exc THEN Raised
    ELSE IF FileSizeRejected(cfg, StatSize(f).val) THEN Ret(FALSE)
    ELSE CheckImageProperties(cfg, f)

IsValidImageExcept(r) == ExceptReturnFalse(r)

IsValidImage(cfg, f) == IsValidImageExcept(IsValidImageBody(cfg, f))

-----------------------------------------------------------------------------
(* The files is_valid_image is probed with.                                 *)

ProbeSizes   == {0, 4999, 5000, 51200, 10485760, 10485761}
ProbeDims    == {0, 50, 100, 299, 300, 500, 2000, 3000, 3001, 4096, 4097}
ProbeFormats == {"JPEG", "PNG", "WEBP", "GIF"}

ProbeFiles ==
    {NoFile}
    \cup {JunkFile(s) : s \in ProbeSizes}
    \cup {UnreadableFile(s) : s \in ProbeSizes}
    \cup UNION { UNION { {ImageFile(s, fm, w, h, ld, <<>>) : w \in ProbeDims, h \in ProbeDims}
                        : fm \in ProbeFormats, ld \in BOOLEAN }
               : s \in ProbeSizes }

NotCalled == [called |-> FALSE, exc |-> FALSE, val |-> FALSE]

-----------------------------------------------------------------------------
(* ImageDeduplicator                                                        *)

\* Bits of a fingerprint (hash_size * hash_size in the code, 64 by default).
HashBits == 2

\* Concurrent is_duplicate calls of SpecDedup.
MaxCalls == 2

Fingerprints == [1..HashBits -> {0, 1}]

\* _calculate_hash's None.
NoHash == <<>>

RECURSIVE Pow2(_)
Pow2(n) == IF n = 0 THEN 1 ELSE 2 * Pow2(n - 1)

RECURSIVE BitsValue(_, _)
\* The number a bit row spells, first bit most significant.
BitsValue(h, n) == IF n = 0 THEN 0 ELSE 2 * BitsValue(h, n - 1) + h[n]

\* str(image_hash): the hexadecimal numeral of the bit row.  A key of the
\* dict is modelled by the number its numeral denotes; a key that is no
\* numeral of HashBits bits (corrupt, or of another hash size) by a number
\* outside 0 .. 2^HashBits - 1.
HashToHex(h) == BitsValue(h, HashBits)

CorruptKey == -1

\* imagehash.hex_to_hash followed by the shape check of ImageHash.__sub__:
\* raises for a key that is no fingerprint of this size.
HexToHash(k) ==
    IF k < 0 \/ k >= Pow2(HashBits) THEN Raised
    ELSE Ret([i \in 1..HashBits |-> (k \div Pow2(HashBits - i)) % 2])

\* image_hash - existing_hash_obj: the number of differing bits.
Hamming(a, b) == Cardinality({i \in 1..HashBits : a[i] # b[i]})

\* distance <= self.threshold
WithinThresholdStrict(d, t) == d < t
WithinThreshold(d, t) == d <= t

\* except Exception: warning and continue (lines 74-76): the scan is worth
\* what the rest of the loop is worth.
ScanExceptAborts(rest) == FALSE
ScanExcept(rest) == rest

RECURSIVE ScanFrom(_, _, _, _)
\* The for loop of is_duplicate from entry i on: TRUE at the first stored
\* fingerprint within the threshold; an entry that raises is skipped.
ScanFrom(db, h, t, i) ==
    IF i > Len(db) THEN FALSE
    ELSE LET e == HexToHash(db[i].hash) IN
         IF e.exc THEN ScanExcept(ScanFrom(db, h, t, i + 1))
         ELSE IF WithinThreshold(Hamming(h, e.val), t) THEN TRUE
         ELSE ScanFrom(db, h, t, i + 1)

\* self.hash_db[k] = v on an insertion-ordered dict.
DictSet(db, k, v) ==
    IF \E i \in 1..Len(db) : db[i].hash = k
    THEN [i \in 1..Len(db) |-> IF db[i].hash = k THEN [hash |-> k, file |-> v] ELSE db[i]]
    ELSE Append(db, [hash |-> k, file |-> v])

\* _calculate_hash: Image.open, convert and average_hash; None on any exception.
CalculateHash(f) ==
    IF ImageOpen(f).exc \/ ~f.loads THEN NoHash ELSE f.fp

\* is_duplicate from the point where the executor hands the hash back: no
\* await follows, so the scan, the insertion and the save are one step.
\* [dup: the value returned, db: self.hash_db afterwards, save: whether _save_hash_db ran]
IsDuplicateInsertFirst(db, t, h, path) ==
    IF h = NoHash THEN [dup |-> FALSE, db |-> db, save |-> FALSE]
    ELSE [dup |-> ScanFrom(db, h, t, 1), db |-> DictSet(db, HashToHex(h), path), save |-> TRUE]
IsDuplicateNoInsert(db, t, h, path) ==
    IF h = NoHash THEN [dup |-> FALSE, db |-> db, save |-> FALSE]
    ELSE [dup |-> ScanFrom(db, h, t, 1), db |-> db, save |-> FALSE]
IsDuplicateForgets(db, t, h, path) ==
    IF h = NoHash THEN [dup |-> FALSE, db |-> db, save |-> FALSE]
    ELSE IF ScanFrom(db, h, t, 1) THEN [dup |-> TRUE, db |-> db, save |-> FALSE]
    ELSE [dup |-> FALSE, db |-> db, save |-> TRUE]
IsDuplicateResume(db, t, h, path) ==
    IF h = NoHash THEN [dup |-> FALSE, db |-> db, save |-> FALSE]
    ELSE IF ScanFrom(db, h, t, 1) THEN [dup |-> TRUE, db |-> db, save |-> FALSE]
    ELSE [dup |-> FALSE, db |-> DictSet(db, HashToHex(h), path), save |-> TRUE]

\* What hash_db_path holds.
MissingFile  == [kind |-> "missing", db |-> <<>>]
JsonFile(db) == [kind |-> "json", db |-> db]
BrokenFile   == [kind |-> "broken", db |-> <<>>]

RECURSIVE JsonLoad(_, _)
\* json.load of the first n key-value pairs of an object: a dict built pair
\* by pair, a repeated key keeping its first place and its last value.
JsonLoad(pairs, n) ==
    IF n = 0 THEN <<>>
    ELSE DictSet(JsonLoad(pairs, n - 1), pairs[n].hash, pairs[n].file)

\* _load_hash_db: the stored dict, {} when the file is missing or json.load raises.
LoadHashDb(file) == IF file.kind = "json" THEN JsonLoad(file.db, Len(file.db)) ELSE <<>>

\* _save_hash_db; its exceptions are logged and swallowed.
\*   "ok"      the file holds the dict
\*   "unopened" mkdir or open raised: the file is as it was
\*   "cut"     open(..., 'w') truncated the file and json.dump raised, or
\*             the process died before json.dump had written the whole dict
SaveOutcomes == {"ok", "unopened", "cut"}

SaveHashDbStale(file, db, outcome) == file
SaveHashDb(file, db, outcome) ==
    CASE outcome = "ok" -> JsonFile(db)
      [] outcome = "unopened" -> file
      [] outcome = "cut" -> BrokenFile

-----------------------------------------------------------------------------
(* ImageCrawler.download_images                                             *)

\* URLs of one batch.
NumUrls == 2

\* self.threshold of the crawler's deduplicator, on the scale of HashBits.
CrawlThreshold == 1

\* retry_attempts: the constructor's default and the smaller values.
DefaultRetryAttempts == 3
RetryChoices == 1..DefaultRetryAttempts

Positions == 1..NumUrls

ZeroBits == [i \in 1..HashBits |-> 0]
OneBits  == [i \in 1..HashBits |-> 1]

\* What a URL may serve: two acceptable images with distant fingerprints and
\* one image the filter rejects.
ImgA     == ImageFile(51200, "JPEG", 500, 500, TRUE, ZeroBits)
ImgB     == ImageFile(51200, "PNG", 500, 500, TRUE, OneBits)
ImgSmall == ImageFile(51200, "JPEG", 50, 50, TRUE, ZeroBits)
Contents == {ImgA, ImgB, ImgSmall}

\* What aiofiles leaves behind when f.write raises after open(..., 'wb').
PartialFile == JunkFile(0)

\* The statuses a fetch may answer and the exceptions the awaits may raise.
Statuses       == {"200", "404", "403", "410", "500", "503"}
FetchErrors    == {"timeout", "connection"}
ExceptionKinds == {"timeout", "connection", "payload", "oserror"}

\* The history kept in a task's `seen`: which kinds of answer its fetches
\* have had so far ("4xx": 404, 403 or 410; "5xx": any other status but 200;
\* "exc": an exception in any step of an attempt).
StatusClass(st) ==
    IF st = "200" THEN {}
    ELSE IF st \in {"404", "403", "410"} THEN {"4xx"}
    ELSE {"5xx"}

\* response.status in [404, 403, 410]
DefinitiveNone(st) == FALSE
Definitive(st) == st \in {"404", "403", "410"}

\* except Exception as e  (line 192): which raised exceptions the handler takes.
ExceptCatchesNetworkOnly(kind) == kind \in {"timeout", "connection", "payload"}
ExceptCatches(kind) == kind \in ExceptionKinds

\* asyncio.Semaphore.acquire does not block while _value > 0.
SemaphoreAlwaysFree(v) == TRUE
SemaphoreFree(v) == v > 0

\* if url not in self.downloaded_urls (line 125), negated.
NeverDownloaded(u, done_urls) == FALSE
AlreadyDownloaded(u, done_urls) == u \in done_urls

\* download_images calls on one crawler.
MaxDownloadCalls == 2

NewTask == [pc |-> "pending", fetches |-> 0, status |-> "none", seen |-> {},
            outcome |-> "none", logged |-> FALSE]

Terminal == {"Kept", "RejectedFilter", "RejectedDuplicate", "Failed"}

\* return / break out of the retry loop: the coroutine ends in `outcome`.
Finish(t, outcome) == [t EXCEPT !.pc = "done", !.outcome = outcome]

\* for attempt in range(self.retry_attempts): one more iteration, or the
\* loop is exhausted and the coroutine returns None.
LastAttemptEarly(t, n) == t.fetches >= n - 1
LastAttempt(t, n) == t.fetches >= n

\* A non-200, non-definitive status: nothing is raised, the loop goes on.
AfterOtherStatus(t, n) ==
    IF LastAttempt(t, n)
    THEN Finish(t, "Failed")
    ELSE [t EXCEPT !.pc = "fetching", !.fetches = @ + 1, !.status = "none"]

\* The except clause (lines 192-196): error log on the last attempt, else sleep.
\* An exception the clause does not take leaves the coroutine.
AfterException(t, n, kind) ==
    IF ~ExceptCatches(kind) THEN [t EXCEPT !.pc = "raised"]
    ELSE IF LastAttempt(t, n)
    THEN Finish([t EXCEPT !.seen = @ \cup {"exc"}, !.logged = TRUE], "Failed")
    ELSE [t EXCEPT !.pc = "sleeping", !.seen = @ \cup {"exc"}]

\* `async with semaphore` releases on every way out of the coroutine.
ReleasedWhenKept(t) == t.pc = "done" /\ t.outcome = "Kept"
Released(t) == t.pc \in {"done", "raised"}

\* The effect of one step of coroutine i that takes its task record to t2.
Step(i, t2) ==
    /\ task' = [task EXCEPT ![i] = t2]
    /\ sem' = IF Released(t2) THEN sem + 1 ELSE sem
    /\ batch' = IF t2.pc = "raised" THEN "raised" ELSE batch

Running == batch \in {"running", "raised"}

-----------------------------------------------------------------------------
(* ImageDeduplicator.remove_duplicates_from_directory                       *)

\* Files of the directory.
MaxDirFiles == 3

RECURSIVE FileHashes(_, _)
\* file_hashes after the first n files: file_hashes[str(image_hash)] = filepath
\* for every file that has a hash.  A file is named by its place in image_files.
FileHashes(files, n) ==
    IF n = 0 THEN <<>>
    ELSE LET h == CalculateHash(files[n])
             rest == FileHashes(files, n - 1) IN
         IF h = NoHash THEN rest ELSE DictSet(rest, HashToHex(h), n)

\* The inner loop for entry i: the entries not yet processed whose
\* fingerprint is within the threshold of entry i's.
SimilarTo(fh, t, i, processed) ==
    {j \in 1..Len(fh) :
        /\ j \notin processed \cup {i}
        /\ ~HexToHash(fh[j].hash).exc
        /\ WithinThreshold(Hamming(HexToHash(fh[i].hash).val, HexToHash(fh[j].hash).val), t)}

RECURSIVE DuplicatesFrom(_, _, _, _)
\* The outer loop from entry i on: the files of similar_files[1:] of every group.
DuplicatesFrom(fh, t, i, processed) ==
    IF i > Len(fh) THEN {}
    ELSE IF i \in processed THEN DuplicatesFrom(fh, t, i + 1, processed)
    ELSE IF HexToHash(fh[i].hash).exc THEN DuplicatesFrom(fh, t, i + 1, processed \cup {i})
    ELSE LET sim == SimilarTo(fh, t, i, processed) IN
         {fh[j].file : j \in sim}
            \cup DuplicatesFrom(fh, t, i + 1, processed \cup {i} \cup sim)

\* remove_duplicates_from_directory: `stuck` are the files whose unlink raises.
\* [removed: the files unlinked, count: the value returned]
RemoveDuplicatesFromDirectory(files, t, stuck) ==
    LET dups == DuplicatesFrom(FileHashes(files, Len(files)), t, 1, {}) IN
    [removed |-> dups \ stuck, count |-> Cardinality(dups \ stuck)]

DirNotCalled == [called |-> FALSE, removed |-> {}, count |-> 0, stuck |-> {}]

-----------------------------------------------------------------------------
(* GPT4VImageLabeler (gpt4v_image_labeler.py)                               *)

\* How post_with_retry ends: a response with a status, or the exception of
\* its last attempt.
PostExceptions == {"timeout", "request_exception", "other_exception"}
PostStatuses   == {"200", "401", "429", "500"}

\* What a 200 response carries.
\*   "fenced_json"   choices[0].message.content holds a JSON object in a ```json fence
\*   "bare_json"     the content holds a JSON object between braces
\*   "plain_text"    the content is no JSON
\*   "scalar_json"   the content is JSON but no object (a list, a number)
\*   "no_choices"    the body is JSON without choices[0].message.content
\*   "body_not_json" the body is no JSON
Bodies == {"fenced_json", "bare_json", "plain_text", "scalar_json", "no_choices",
           "body_not_json"}

LabelInputs == [readable : BOOLEAN, post : PostExceptions \cup PostStatuses, body : Bodies]

\* The records _classify_image_sync returns.
Classification == [error |-> "none", metadata |-> TRUE]
ErrorRecord(e) == [error |-> e, metadata |-> TRUE]

\* asyncio.get_event_loop().time() (line 143): a thread started by
\* asyncio.to_thread has no current event loop, get_event_loop raises RuntimeError.
LoopTime(threaded) == IF threaded THEN Raised ELSE Ret(0)

\* Lines 119-170: the response handling inside the outer try.
HandleResponse(in, threaded) ==
    IF in.post # "200" THEN Ret(ErrorRecord("api_failed"))
    ELSE CASE in.body = "body_not_json" -> RaisedKind("request_exception")
           [] in.body = "no_choices"    -> RaisedKind("other_exception")
           [] in.body = "plain_text"    -> Ret(ErrorRecord("json_parse"))
           [] in.body = "scalar_json"   -> RaisedKind("other_exception")
           [] OTHER -> IF LoopTime(threaded).exc THEN RaisedKind("other_exception")
                       ELSE Ret(Classification)

\* The except clauses of lines 172-195.
SyncExcept(k) ==
    CASE k = "timeout"           -> Ret(ErrorRecord("timed_out"))
      [] k = "request_exception" -> Ret(ErrorRecord("network"))
      [] OTHER                   -> Ret(ErrorRecord("exception"))

\* encode_image: open(image_path, 'rb') and read.
EncodeImage(in) == IF in.readable THEN Ret(0) ELSE RaisedKind("oserror")

\* The try statement of lines 111-195.
SyncTry(in, threaded) ==
    LET r == IF in.post \in PostExceptions THEN RaisedKind(in.post)
             ELSE HandleResponse(in, threaded) IN
    IF r.exc THEN SyncExcept(r.val) ELSE r

\* _classify_image_sync: encode_image (line 52) is called before the try.
ClassifyImageSync(in, threaded) ==
    IF EncodeImage(in).exc THEN EncodeImage(in) ELSE SyncTry(in, threaded)

\* classify_image: the synchronous body in a worker thread.
ClassifyImage(in) == ClassifyImageSync(in, TRUE)

LabelIdleIn == [readable |-> TRUE, post |-> "200", body |-> "bare_json"]

-----------------------------------------------------------------------------
(* Image search: crawler/search.py and ImageCrawler.search_images           *)

\* Keywords of one ImageCrawler.search_images call.
NumKeywords == 2

\* The URLs the providers know, and the longest list one query gives back.
MaxSearchUrls == 3
MaxListLen == 2

\* The providers in the order the mixed search queries them (lines 77-80).
MixedOrder == <<"serper", "unsplash", "serpapi", "flickr">>
Engines == {"serper", "serpapi", "unsplash", "flickr"}

\* What a caller may pass as engine.
EngineArgs == Engines \cup {"mixed", "invalid_engine"}

\* What a provider does when it is queried.
\*   "no_key"   its API key is not in the environment
\*   "timeout"  the request times out
\*   "network"  the request fails with a client error
\*   "non200"   the API answers with a status other than 200
\*   "bad_body" the answer is no JSON or lacks the fields the loop reads
\*   "found"    the API answers 200 with the list urls
FailureKinds == {"no_key", "timeout", "network", "non200", "bad_body"}
RaisingKinds == {"timeout", "network", "bad_body"}
UrlLists == UNION {[1..n -> 1..MaxSearchUrls] : n \in 0..MaxListLen}
Behaviours ==
    {[kind |-> k, urls |-> <<>>] : k \in FailureKinds}
    \cup {[kind |-> "found", urls |-> l] : l \in UrlLists}

\* urls[:limit]
Take(l, limit) == SubSeq(l, 1, Min2(limit, Len(l)))

SeqRange(l) == {l[i] : i \in 1..Len(l)}

\* The result of a search: a list or an exception, and what was logged.
Found(l, log) == [exc |-> FALSE, val |-> l, log |-> log]
Failed(k) == [exc |-> TRUE, val |-> k, log |-> "none"]

\* _search_serpapi, _search_unsplash and _search_flickr run the request in
\* a try whose except logs and falls through to return []; _search_serper
\* (lines 43-71) has no try.
ProviderGuarded(engine) == engine # "serper"

\* _search_serper, _search_serpapi, _search_unsplash, _search_flickr
SearchProvider(engine, b, limit) ==
    CASE b.kind = "no_key" -> Found(<<>>, "warning")
      [] b.kind = "non200" -> Found(<<>>, "none")
      [] b.kind \in RaisingKinds ->
            IF ProviderGuarded(engine) THEN Found(<<>>, "error") ELSE Failed(b.kind)
      [] OTHER -> Found(Take(b.urls, limit), "none")

\* ImageSearchEngine.search_images: the dispatch on the engine name.
EngineSearchImages(engine, b, limit) ==
    IF engine \in Engines THEN SearchProvider(engine, b, limit)
    ELSE Failed("ValueError")

\* search.search_images: the engine's search inside try/finally; the
\* finally closes the session and lets the exception pass.
SearchImagesFn(engine, b, limit) == EngineSearchImages(engine, b, limit)

\* ImageCrawler._search_engine_wrapper: except Exception logs and returns [].
WrapperLetsThrough(r) == r
WrapperExcept(r) == Found(<<>>, "error")
SearchEngineWrapper(engine, b, limit) ==
    LET r == EngineSearchImages(engine, b, limit) IN
    IF r.exc THEN WrapperExcept(r) ELSE r

\* The engine and the limit of query `step` of a keyword.
StepsPerKeyword(engine) == IF engine = "mixed" THEN Len(MixedOrder) ELSE 1
StepEngine(engine, step) == IF engine = "mixed" THEN MixedOrder[step] ELSE engine
StepLimit(engine, m) == IF engine = "mixed" THEN m \div 4 ELSE m

\* list(set(urls))[:max_per_keyword]: the sets that may be kept.
UniqueUrls(us, m) ==
    {kept \in SUBSET us : Cardinality(kept) = Min2(m, Cardinality(us))}

\* max_per_keyword as callers pass it.
MaxPerKeywordChoices == {3, 4, 8}

SearchIdleIn == [engine |-> "mixed", max_per_keyword |-> 4]
SearchIdle == [pc |-> "idle", kw |-> 1, step |-> 1, urls |-> {}, all_urls |-> {},
               queried |-> {}, returned |-> {}, failed |-> FALSE, raised |-> FALSE,
               result |-> {}]
FnNotCalled == [called |-> FALSE, engine |-> "serper", kind |-> "found",
                exc |-> FALSE, val |-> <<>>, log |-> "none"]

-----------------------------------------------------------------------------
(* OCRDLPCli (ocrdlp.py)                                                    *)

Commands == {"search", "download", "classify", "pipeline", "validate", "none"}

\* What one run meets.
\*   command        the subcommand parsed (none: no subcommand given)
\*   serper_key, openai_key   whether the variable is set in the environment
\*   search         search_images: "urls", "empty" or "raises"
\*   download       download_images: "files", "empty" or "raises"
\*   classify       classify_images_batch: "results", "empty" (None or []) or "raises"
\*   validation     validate_classification_labels: "summary", "none" or "raises"
\*   mkdir_ok       whether output_dir.mkdir succeeds
\*   urls_file      --urls-file: "ok", "unreadable", "empty", or "absent" (--query given)
\*   input_exists   whether the input directory / file exists
\*   output         --output of search: "none", "ok" or "fails" (open or write raises)
\*   validate_flag  --validate of classify
CliInputs ==
    [command : Commands, serper_key : BOOLEAN, openai_key : BOOLEAN,
     search : {"urls", "empty", "raises"}, download : {"files", "empty", "raises"},
     classify : {"results", "empty", "raises"},
     validation : {"summary", "none", "raises"},
     mkdir_ok : BOOLEAN, urls_file : {"ok", "unreadable", "empty", "absent"},
     input_exists : BOOLEAN, output : {"none", "ok", "fails"}, validate_flag : BOOLEAN]

\* A command returns a status, or an exception leaves it; `invoked` are the
\* operations it called.
Returns(v, invoked) == [exc |-> FALSE, val |-> v, invoked |-> invoked]
Escapes(invoked) == [exc |-> TRUE, val |-> 1, invoked |-> invoked]

\* check_api_keys: both variables are required.
CheckApiKeysSkipped(in) == TRUE
CheckApiKeys(in) == in.serper_key /\ in.openai_key

\* run checks the keys for these commands (line 330).
KeyedCommands == {"search", "download", "classify", "pipeline"}

\* search_command: everything is inside the try.
SearchCommand(in) ==
    IF in.search = "raises" THEN Returns(1, {"search"})
    ELSE IF in.search = "urls" /\ in.output = "fails" THEN Returns(1, {"search"})
    ELSE Returns(0, {"search"})

\* download_command: mkdir, the reading of the URLs file and the search
\* come before the try (lines 81-98).
DownloadCommand(in) ==
    IF ~in.mkdir_ok THEN Escapes({})
    ELSE IF in.urls_file = "unreadable" THEN Escapes({})
    ELSE IF in.urls_file = "absent" /\ in.search = "raises" THEN Escapes({"search"})
    ELSE LET searched == IF in.urls_file = "absent" THEN {"search"} ELSE {}
             no_urls == \/ in.urls_file = "empty"
                        \/ in.urls_file = "absent" /\ in.search = "empty" IN
         IF no_urls THEN Returns(1, searched)
         ELSE IF in.download = "files" THEN Returns(0, searched \cup {"download"})
         ELSE Returns(1, searched \cup {"download"})

\* classify_command
ClassifyCommand(in) ==
    IF ~in.input_exists THEN Returns(1, {})
    ELSE IF in.classify # "results" THEN Returns(1, {"classify"})
    ELSE IF ~in.validate_flag THEN Returns(0, {"classify"})
    ELSE IF in.validation = "raises" THEN Returns(1, {"classify", "validate"})
    ELSE Returns(0, {"classify", "validate"})

\* pipeline_command: mkdir comes before the try (lines 169-170).
PipelineCommand(in) ==
    IF ~in.mkdir_ok THEN Escapes({})
    ELSE IF in.search # "urls" THEN Returns(1, {"search"})
    ELSE IF in.download # "files" THEN Returns(1, {"search", "download"})
    ELSE IF in.classify # "results" THEN Returns(1, {"search", "download", "classify"})
    ELSE Returns(0, {"search", "download", "classify"})

\* validate_command
ValidateCommand(in) ==
    IF ~in.input_exists THEN Returns(1, {})
    ELSE IF in.validation = "summary" THEN Returns(0, {"validate"})
    ELSE Returns(1, {"validate"})

\* OCRDLPCli.run
RunCli(in) ==
    IF in.command = "none" THEN Returns(1, {})
    ELSE IF in.command \in KeyedCommands /\ ~CheckApiKeys(in) THEN Returns(1, {})
    ELSE CASE in.command = "search"   -> SearchCommand(in)
           [] in.command = "download" -> DownloadCommand(in)
           [] in.command = "classify" -> ClassifyCommand(in)
           [] in.command = "pipeline" -> PipelineCommand(in)
           [] in.command = "validate" -> ValidateCommand(in)

\* main: sys.exit(exit_code), or sys.exit(1) for an exception that left run.
ExitStatus(r) == IF r.exc THEN 1 ELSE r.val

CliIdleIn == [command |-> "none", serper_key |-> TRUE, openai_key |-> TRUE,
              search |-> "urls", download |-> "files", classify |-> "results",
              validation |-> "summary", mkdir_ok |-> TRUE, urls_file |-> "ok",
              input_exists |-> TRUE, output |-> "none", validate_flag |-> FALSE]
CliNotCalled == [called |-> FALSE, exc |-> FALSE, val |-> 0, invoked |-> {}]

-----------------------------------------------------------------------------
(* classify_images_batch (gpt4v_image_labeler.py)                           *)

\* The most image files in the directory.
MaxBatch == 3

\* The image files a batch meets: readable or not, and the request answered
\* by a 200 with a JSON object or timing out.
BatchImages == {in \in LabelInputs : in.body = "bare_json" /\ in.post \in {"200", "timeout"}}

BatchInputs ==
    [api_key : BOOLEAN, dir_exists : BOOLEAN,
     images : UNION {[1..n -> BatchImages] : n \in 0..MaxBatch}]

\* A line of the output file / an element of results: the error of the
\* record ("none" for a classification) and _file_info.processing_order.
BatchRecord(err, i) == [error |-> err, order |-> i]

\* The try of lines 235-260: the record of the classification with its _file_info.
ResultRecord(r, i) == BatchRecord(r.val.error, i)

\* The except of lines 262-274.
ErrorResult(i) == BatchRecord("processing_failed", i)

\* The record of the i-th image file.
RecordOf(in, i) ==
    LET r == ClassifyImage(in) IN
    IF r.exc THEN ErrorResult(i) ELSE ResultRecord(r, i)

\* f.flush(): every line written so far is on disk.
NotFlushed(written, on_disk) == on_disk
Flushed(written, on_disk) == Len(written)

\* A line an earlier run left in the output file.
StaleLine == BatchRecord("stale", 0)

BatchIdleIn == [api_key |-> TRUE, dir_exists |-> TRUE, images |-> <<>>]
BatchIdleSt == [pc |-> "idle", i |-> 0, written |-> <<>>, on_disk |-> 0,
                results |-> <<>>, ret |-> "pending", ret_val |-> <<>>]

-----------------------------------------------------------------------------
(* http_client.py: get_with_retry and post_with_retry                       *)

\* stop=stop_after_attempt(3)
StopAfterAttempt == 3

Wrappers == {"get_with_retry", "post_with_retry"}

\* The function a wrapper calls.
Underlying(w) == IF w = "get_with_retry" THEN "requests.get" ELSE "requests.post"

\* What a request meets: a response with a status, or an exception.
HttpResponses  == {"200", "500"}
HttpExceptions == {"timeout", "connection_error"}

\* What the k-th request would meet, for one request more than the wrapper
\* may make.
HttpInputs ==
    [wrapper : Wrappers,
     meets : [1..(StopAfterAttempt + 1) -> HttpResponses \cup HttpExceptions]]

\* The k-th call of the underlying function.
Request(in, k) ==
    IF in.meets[k] \in HttpExceptions THEN RaisedKind(in.meets[k]) ELSE Ret(in.meets[k])

\* stop_after_attempt: no retry once this many attempts were made.
StopOneLate(attempt_number) == attempt_number > StopAfterAttempt
Stop(attempt_number) == attempt_number >= StopAfterAttempt

HttpIdleIn == [wrapper |-> "get_with_retry",
               meets |-> [k \in 1..(StopAfterAttempt + 1) |-> "200"]]
HttpIdleSt == [pc |-> "idle", attempt_number |-> 0, calls |-> <<>>, result |-> Ret("none")]

-----------------------------------------------------------------------------
(* ImageDeduplicator.get_duplicate_groups                                   *)

\* The most entries of the index get_duplicate_groups is run on.
MaxEntries == 3

\* The keys an index may hold: the numerals of the fingerprints and a corrupt key.
IndexKeys == {HashToHex(fp) : fp \in Fingerprints} \cup {CorruptKey}

\* The dicts of at most MaxEntries entries; entry i holds the path i.
Indexes ==
    UNION {{[i \in 1..n |-> [hash |-> ks[i], file |-> i]] :
              ks \in {s \in [1..n -> IndexKeys] :
                         \A i \in 1..n : \A j \in 1..n : i # j => s[i] # s[j]}} :
           n \in 0..MaxEntries}

\* if len(group) > 1
ReportedAlways(group) == TRUE
Reported(group) == Len(group) > 1

RECURSIVE GroupInnerLoop(_, _, _, _, _)
\* The inner for loop from entry j on: an entry not yet processed whose
\* fingerprint is within the threshold of hash1_obj is appended to the group
\* and marked; an entry whose key raises is passed over.
GroupInnerLoop(db, t, h1, j, acc) ==
    IF j > Len(db) THEN acc
    ELSE IF db[j].hash \in acc.processed THEN GroupInnerLoop(db, t, h1, j + 1, acc)
    ELSE LET e2 == HexToHash(db[j].hash) IN
         IF e2.exc THEN GroupInnerLoop(db, t, h1, j + 1, acc)
         ELSE IF WithinThreshold(Hamming(h1, e2.val), t)
         THEN GroupInnerLoop(db, t, h1, j + 1,
                  [group |-> Append(acc.group, db[j].file),
                   processed |-> acc.processed \cup {db[j].hash}])
         ELSE GroupInnerLoop(db, t, h1, j + 1, acc)

RECURSIVE GroupOuterLoop(_, _, _, _)
\* The outer for loop from entry i on; st = [groups, processed].
GroupOuterLoop(db, t, i, st) ==
    IF i > Len(db) THEN st.groups
    ELSE IF db[i].hash \in st.processed THEN GroupOuterLoop(db, t, i + 1, st)
    ELSE LET p1 == st.processed \cup {db[i].hash}
             e1 == HexToHash(db[i].hash) IN
         IF e1.exc THEN GroupOuterLoop(db, t, i + 1, [st EXCEPT !.processed = p1])
         ELSE LET r == GroupInnerLoop(db, t, e1.val, 1,
                           [group |-> <<db[i].file>>, processed |-> p1]) IN
              GroupOuterLoop(db, t, i + 1,
                  [groups |-> IF Reported(r.group)
                              THEN Append(st.groups, [key |-> db[i].hash, files |-> r.group])
                              ELSE st.groups,
                   processed |-> r.processed])

\* get_duplicate_groups: the dict of groups, in insertion order.
GetDuplicateGroups(db, t) == GroupOuterLoop(db, t, 1, [groups |-> <<>>, processed |-> {}])

GroupsNotCalled == [called |-> FALSE, groups |-> <<>>]

-----------------------------------------------------------------------------
(* OCRDLPCli.pipeline_command, step by step                                 *)

\* The pipeline command lines: both keys set, every outcome of the steps.
PipelineInputs ==
    {in \in CliInputs :
        /\ in.command = "pipeline" /\ in.serper_key /\ in.openai_key
        /\ in.validation = "summary" /\ in.urls_file = "absent"
        /\ in.input_exists /\ in.output = "none" /\ ~in.validate_flag}

\* `if not urls: return 1`, `if not results: return 1`, `if classification_results:`
\* a step lets the next one run when it returned something non-empty.
StepPassedUnlessRaised(outcome) == outcome # "raises"
StepPassed(outcome) == outcome \in {"urls", "files", "results"}

\* The command after a step: on to `next`, or return 1 (an empty result, or
\* an exception caught by the except clause of line 215).
AfterStep(st, step, outcome, next) ==
    IF StepPassed(outcome)
    THEN [st EXCEPT !.pc = next, !.trace = Append(@, step),
                    !.ret = IF next = "done" THEN "0" ELSE @]
    ELSE [st EXCEPT !.pc = "done", !.trace = Append(@, step), !.ret = "1"]

PipeIdleSt == [pc |-> "start", trace |-> <<>>, ret |-> "pending"]

-----------------------------------------------------------------------------
(* The variables of the operations that are not being driven.               *)

DirIdle    == dir_files = <<>> /\ dir_out = DirNotCalled
LabelIdle  == label_in = LabelIdleIn /\ label_out = NotCalled
SearchQuiet == search_in = SearchIdleIn /\ search_st = SearchIdle /\ fn_out = FnNotCalled
CliIdle    == cli_in = CliIdleIn /\ cli_out = CliNotCalled
BatchIdle  == batch_in = BatchIdleIn /\ batch_st = BatchIdleSt
HttpIdle   == http_in = HttpIdleIn /\ http_st = HttpIdleSt
GroupsIdle == groups_out = GroupsNotCalled
PipeIdle   == pipe_in = CliIdleIn /\ pipe_st = PipeIdleSt
NoHistory  == history = <<>>

\* Every operation but `t` is idle.
ToolsIdleExcept(t) ==
    /\ IF t # "dir" THEN DirIdle ELSE TRUE
    /\ IF t # "label" THEN LabelIdle ELSE TRUE
    /\ IF t # "search" THEN SearchQuiet ELSE TRUE
    /\ IF t # "cli" THEN CliIdle ELSE TRUE
    /\ IF t # "batch" THEN BatchIdle ELSE TRUE
    /\ IF t # "http" THEN HttpIdle ELSE TRUE
    /\ IF t # "groups" THEN GroupsIdle ELSE TRUE
    /\ IF t # "pipe" THEN PipeIdle ELSE TRUE
    /\ IF t # "calls" THEN NoHistory ELSE TRUE

\* A step of operation `t` leaves the variables of the others alone.
ToolsUnchangedExcept(t) ==
    /\ IF t # "dir" THEN UNCHANGED dirVars ELSE TRUE
    /\ IF t # "label" THEN UNCHANGED labelVars ELSE TRUE
    /\ IF t # "search" THEN UNCHANGED searchVars ELSE TRUE
    /\ IF t # "cli" THEN UNCHANGED cliVars ELSE TRUE
    /\ IF t # "batch" THEN UNCHANGED batchVars ELSE TRUE
    /\ IF t # "http" THEN UNCHANGED httpVars ELSE TRUE
    /\ IF t # "groups" THEN UNCHANGED groups_out ELSE TRUE
    /\ IF t # "pipe" THEN UNCHANGED pipeVars ELSE TRUE
    /\ IF t # "calls" THEN UNCHANGED history ELSE TRUE

ToolsIdle == ToolsIdleExcept("none")

-----------------------------------------------------------------------------
(* Actions of Spec: one download_images call.                               *)

\* download_images up to the gather: the semaphore and one coroutine per URL
\* that is not in downloaded_urls.
StartBatch ==
    /\ batch = "idle"
    /\ batch' = "running"
    /\ sem' = max_concurrent
    /\ task' = [i \in Positions |->
                  IF AlreadyDownloaded(urls[i], downloaded_urls)
                  THEN [NewTask EXCEPT !.pc = "skipped"] ELSE NewTask]
    /\ UNCHANGED <<urls, content, max_concurrent, retry_attempts, disk,
                   downloaded_urls, results>>
    /\ UNCHANGED <<filterVars, dedupVars>>
    /\ UNCHANGED toolVars

\* `async with semaphore` lets the coroutine in and its first session.get
\* starts.  tqdm.gather hands the coroutines to asyncio.as_completed, which
\* starts them in the iteration order of a set, so any coroutine that has
\* not started may be the next one to reach the semaphore.
Acquire(i) ==
    /\ Running
    /\ task[i].pc = "pending"
    /\ SemaphoreFree(sem)
    /\ task' = [task EXCEPT ![i] = [@ EXCEPT !.pc = "fetching", !.fetches = 1]]
    /\ sem' = sem - 1
    /\ UNCHANGED <<urls, content, max_concurrent, retry_attempts, disk,
                   downloaded_urls, results, batch>>
    /\ UNCHANGED <<filterVars, dedupVars>>
    /\ UNCHANGED toolVars

\* session.get(url) answers with a status.
FetchStatus(i) ==
    /\ Running
    /\ task[i].pc = "fetching"
    /\ \E st \in Statuses :
         LET t == [task[i] EXCEPT !.status = st, !.seen = @ \cup StatusClass(st)] IN
         Step(i, IF st = "200" THEN [t EXCEPT !.pc = "reading"]
                 ELSE IF Definitive(st) THEN Finish(t, "Failed")
                 ELSE AfterOtherStatus(t, retry_attempts))
    /\ UNCHANGED <<urls, content, max_concurrent, retry_attempts, disk,
                   downloaded_urls, results>>
    /\ UNCHANGED <<filterVars, dedupVars>>
    /\ UNCHANGED toolVars

\* session.get(url) raises (timeout of 30 s, connection error).
FetchRaises(i) ==
    /\ Running
    /\ task[i].pc = "fetching"
    /\ \E kind \in FetchErrors :
         Step(i, AfterException([task[i] EXCEPT !.status = "exc"], retry_attempts, kind))
    /\ UNCHANGED <<urls, content, max_concurrent, retry_attempts, disk,
                   downloaded_urls, results>>
    /\ UNCHANGED <<filterVars, dedupVars>>
    /\ UNCHANGED toolVars

\* await response.read(): the body arrives, or the transfer breaks.
ReadBody(i) ==
    /\ Running
    /\ task[i].pc = "reading"
    /\ \E ok \in BOOLEAN :
         Step(i, IF ok THEN [task[i] EXCEPT !.pc = "writing"]
                 ELSE AfterException(task[i], retry_attempts, "payload"))
    /\ UNCHANGED <<urls, content, max_concurrent, retry_attempts, disk,
                   downloaded_urls, results>>
    /\ UNCHANGED <<filterVars, dedupVars>>
    /\ UNCHANGED toolVars

\* aiofiles.open(filepath, 'wb') and f.write(content).
WriteFile(i) ==
    /\ Running
    /\ task[i].pc = "writing"
    /\ \E w \in {"ok", "unopened", "cut"} :
         /\ disk' = [disk EXCEPT ![i] = CASE w = "ok" -> content[i]
                                          [] w = "unopened" -> @
                                          [] w = "cut" -> PartialFile]
         /\ Step(i, IF w = "ok" THEN [task[i] EXCEPT !.pc = "filtering"]
                    ELSE AfterException(task[i], retry_attempts, "oserror"))
    /\ UNCHANGED <<urls, content, max_concurrent, retry_attempts,
                   downloaded_urls, results>>
    /\ UNCHANGED <<filterVars, dedupVars>>
    /\ UNCHANGED toolVars

\* await self.filter.is_valid_image(filepath) comes back; a rejected file is
\* removed (os.remove may raise) and the loop is left.
FilterDone(i) ==
    /\ Running
    /\ task[i].pc = "filtering"
    /\ LET v == IsValidImage(DefaultFilter, disk[i]) IN
       IF v.exc THEN
            /\ Step(i, AfterException(task[i], retry_attempts, "oserror"))
            /\ UNCHANGED disk
       ELSE IF v.val THEN
            /\ Step(i, [task[i] EXCEPT !.pc = "hashing"])
            /\ UNCHANGED disk
       ELSE \E removed \in BOOLEAN :
            /\ disk' = IF removed THEN [disk EXCEPT ![i] = NoFile] ELSE disk
            /\ Step(i, IF removed THEN Finish(task[i], "RejectedFilter")
                       ELSE AfterException(task[i], retry_attempts, "oserror"))
    /\ UNCHANGED <<urls, content, max_concurrent, retry_attempts,
                   downloaded_urls, results>>
    /\ UNCHANGED <<filterVars, dedupVars>>
    /\ UNCHANGED toolVars

\* is_duplicate resumes with the hash: scan, insert and save without an
\* await, then either the success record or the removal of the duplicate.
HashDone(i) ==
    /\ Running
    /\ task[i].pc = "hashing"
    /\ LET r == IsDuplicateResume(hash_db, threshold, CalculateHash(disk[i]), i) IN
       /\ hash_db' = r.db
       /\ \E so \in SaveOutcomes :
            hash_file' = IF r.save THEN SaveHashDb(hash_file, r.db, so) ELSE hash_file
       /\ IF ~r.dup THEN
            /\ downloaded_urls' = downloaded_urls \cup {urls[i]}
            /\ Step(i, Finish(task[i], "Kept"))
            /\ UNCHANGED disk
          ELSE \E removed \in BOOLEAN :
            /\ disk' = IF removed THEN [disk EXCEPT ![i] = NoFile] ELSE disk
            /\ Step(i, IF removed THEN Finish(task[i], "RejectedDuplicate")
                       ELSE AfterException(task[i], retry_attempts, "oserror"))
            /\ UNCHANGED downloaded_urls
    /\ UNCHANGED <<urls, content, max_concurrent, retry_attempts, results>>
    /\ UNCHANGED <<filterVars, threshold, loaded_db, dcall>>
    /\ UNCHANGED toolVars

\* asyncio.sleep(1) is over: the next iteration's session.get starts.
SleepDone(i) ==
    /\ Running
    /\ task[i].pc = "sleeping"
    /\ Step(i, [task[i] EXCEPT !.pc = "fetching", !.fetches = @ + 1, !.status = "none"])
    /\ UNCHANGED <<urls, content, max_concurrent, retry_attempts, disk,
                   downloaded_urls, results>>
    /\ UNCHANGED <<filterVars, dedupVars>>
    /\ UNCHANGED toolVars

\* The value of a finished coroutine: {url: str(filepath)} or None.
Kept(i) == task[i].pc = "done" /\ task[i].outcome = "Kept"

\* results.update(result) over the gathered values in the order of the list.
GatheredResults ==
    [u \in {urls[i] : i \in {j \in Positions : Kept(j)}} |->
        CHOOSE i \in Positions :
            /\ Kept(i) /\ urls[i] = u
            /\ \A j \in Positions : (Kept(j) /\ urls[j] = u) => j <= i]

\* tqdm.gather returns once every coroutine has returned.
Return ==
    /\ batch = "running"
    /\ \A i \in Positions : task[i].pc \in {"done", "skipped"}
    /\ results' = GatheredResults
    /\ batch' = "returned"
    /\ UNCHANGED <<urls, content, max_concurrent, retry_attempts, sem, task, disk,
                   downloaded_urls>>
    /\ UNCHANGED <<filterVars, dedupVars>>
    /\ UNCHANGED toolVars

\* The index file a crawler may find at construction: none, or one left by
\* an earlier crawl that kept ImgA.
EarlierIndex == JsonFile(<<[hash |-> HashToHex(ZeroBits), file |-> 0]>>)

Init ==
    /\ filter_cfg = DefaultFilter
    /\ probe_file = NoFile
    /\ probe_result = NotCalled
    /\ threshold = CrawlThreshold
    /\ hash_file \in {MissingFile, EarlierIndex}
    /\ hash_db = LoadHashDb(hash_file)
    /\ loaded_db = hash_db
    /\ dcall = <<>>
    /\ urls = [i \in Positions |-> i]
    /\ content \in [Positions -> Contents]
    /\ max_concurrent \in Positions
    /\ retry_attempts \in RetryChoices
    /\ sem = 0
    /\ task = [i \in Positions |-> [NewTask EXCEPT !.pc = "skipped"]]
    /\ disk = [i \in Positions |-> NoFile]
    /\ downloaded_urls = {}
    /\ results = <<>>
    /\ batch = "idle"
    /\ ToolsIdle

Next ==
    \/ StartBatch
    \/ \E i \in Positions : Acquire(i)
    \/ \E i \in Positions : FetchStatus(i)
    \/ \E i \in Positions : FetchRaises(i)
    \/ \E i \in Positions : ReadBody(i)
    \/ \E i \in Positions : WriteFile(i)
    \/ \E i \in Positions : FilterDone(i)
    \/ \E i \in Positions : HashDone(i)
    \/ \E i \in Positions : SleepDone(i)
    \/ Return

Spec == Init /\ [][Next]_vars

\* Spec with progress: the event loop runs a coroutine whose await has
\* completed, and every fetch, read, write, filter, hash and sleep completes.
SpecLive == Spec /\ WF_vars(Next)

-----------------------------------------------------------------------------
(* SpecCalls: download_images called again on the same crawler.             *)

\* What a returned call leaves to remember: the mapping it returned, with
\* the file each path held at that moment, and how each of its URLs ended
\* ("none" for a URL that was skipped).
Snapshot ==
    [kept  |-> [u \in DOMAIN results |-> [path |-> results[u], file |-> disk[results[u]]]],
     ended |-> {<<urls[i], task[i].outcome>> : i \in Positions}]

\* The URLs of the calls so far.
KnownUrls == {urls[i] : i \in Positions}

\* What a URL serves.
Serves(u) == content[CHOOSE j \in Positions : urls[j] = u]

\* The caller passes a list of the same length again, made of URLs it has
\* passed before, in any order; the coroutines of the returned call are gone.
NewCall ==
    /\ batch = "returned"
    /\ Len(history) < MaxDownloadCalls - 1
    /\ history' = Append(history, Snapshot)
    /\ \E us \in [Positions -> KnownUrls] :
         /\ urls' = us
         /\ content' = [i \in Positions |-> Serves(us[i])]
    /\ batch' = "idle"
    /\ task' = [i \in Positions |-> [NewTask EXCEPT !.pc = "skipped"]]
    /\ results' = <<>>
    /\ sem' = 0
    /\ UNCHANGED <<max_concurrent, retry_attempts, disk, downloaded_urls>>
    /\ UNCHANGED <<filterVars, dedupVars>>
    /\ ToolsUnchangedExcept("calls")

\* A crawler on one permit with one retry, a fresh index, and the first list.
InitCalls ==
    /\ filter_cfg = DefaultFilter
    /\ probe_file = NoFile
    /\ probe_result = NotCalled
    /\ threshold = CrawlThreshold
    /\ hash_file = MissingFile
    /\ hash_db = <<>>
    /\ loaded_db = <<>>
    /\ dcall = <<>>
    /\ urls = [i \in Positions |-> i]
    /\ content \in [Positions -> Contents]
    /\ max_concurrent = 1
    /\ retry_attempts = 2
    /\ sem = 0
    /\ task = [i \in Positions |-> [NewTask EXCEPT !.pc = "skipped"]]
    /\ disk = [i \in Positions |-> NoFile]
    /\ downloaded_urls = {}
    /\ results = <<>>
    /\ batch = "idle"
    /\ history = <<>>
    /\ ToolsIdleExcept("calls")

NextCalls == Next \/ NewCall

SpecCalls == InitCalls /\ [][NextCalls]_vars

-----------------------------------------------------------------------------
(* SpecFilter: is_valid_image applied to every probe file.                  *)

\* The crawler's variables while only a filter or a deduplicator is driven.
CrawlerIdle ==
    /\ urls = [i \in Positions |-> i]
    /\ content = [i \in Positions |-> ImgA]
    /\ max_concurrent = 1
    /\ retry_attempts = 1
    /\ sem = 0
    /\ task = [i \in Positions |-> [NewTask EXCEPT !.pc = "skipped"]]
    /\ disk = [i \in Positions |-> NoFile]
    /\ downloaded_urls = {}
    /\ results = <<>>
    /\ batch = "idle"

InitFilter ==
    /\ filter_cfg \in FilterConfigs
    /\ probe_file \in ProbeFiles
    /\ probe_result = NotCalled
    /\ threshold = CrawlThreshold
    /\ hash_file = MissingFile
    /\ hash_db = <<>>
    /\ loaded_db = <<>>
    /\ dcall = <<>>
    /\ CrawlerIdle
    /\ ToolsIdle

\* await filter.is_valid_image(probe path)
Validate ==
    /\ ~probe_result.called
    /\ LET r == IsValidImage(filter_cfg, probe_file) IN
       probe_result' = [called |-> TRUE, exc |-> r.exc, val |-> r.val]
    /\ UNCHANGED <<filter_cfg, probe_file>>
    /\ UNCHANGED <<dedupVars, crawlVars>>
    /\ UNCHANGED toolVars

NextFilter == Validate

SpecFilter == InitFilter /\ [][NextFilter]_vars

-----------------------------------------------------------------------------
(* SpecDedup: is_duplicate calls, possibly overlapping, on one instance.    *)

Calls == 1..MaxCalls

\* The files is_duplicate is called on: an image of every fingerprint, and
\* one file that cannot be hashed.  Call c is given the path c.
DedupFiles ==
    {ImageFile(51200, "JPEG", 500, 500, TRUE, fp) : fp \in Fingerprints}
    \cup {JunkFile(51200)}

\* What hash_db_path may hold at construction: nothing, bytes that are no
\* JSON, or the index of an earlier process with a corrupt key among its entries.
DedupInitialFiles ==
    { MissingFile, BrokenFile,
      JsonFile(<<[hash |-> CorruptKey, file |-> 0],
                 [hash |-> HashToHex(ZeroBits), file |-> 0]>>) }

IdleCall == [pc |-> "idle", file |-> NoFile, result |-> FALSE, overlapped |-> FALSE,
             seq |-> 0, save |-> "none"]

InitDedup ==
    /\ filter_cfg = DefaultFilter
    /\ probe_file = NoFile
    /\ probe_result = NotCalled
    /\ threshold \in 0..HashBits
    /\ hash_file \in DedupInitialFiles
    /\ hash_db = LoadHashDb(hash_file)
    /\ loaded_db = hash_db
    /\ dcall = [c \in Calls |-> IdleCall]
    /\ CrawlerIdle
    /\ ToolsIdle

\* is_duplicate(filepath) is called and suspends in run_in_executor.
CallIsDuplicate(c) ==
    /\ dcall[c].pc = "idle"
    /\ \E f \in DedupFiles :
         dcall' = [dcall EXCEPT ![c] = [@ EXCEPT !.pc = "hashing", !.file = f]]
    /\ UNCHANGED <<indexVars, filterVars, crawlVars>>
    /\ UNCHANGED toolVars

\* How many calls have returned.
Returned == Cardinality({c \in Calls : dcall[c].pc = "done"})

\* The executor hands the hash back: the rest of is_duplicate in one step.
\* seq: the rank of the call among the returns; overlapped: another call was
\* suspended in its hash computation at that moment; save: how the call's
\* _save_hash_db went ("none" when the call did not insert).
ResumeIsDuplicate(c) ==
    /\ dcall[c].pc = "hashing"
    /\ LET r == IsDuplicateResume(hash_db, threshold, CalculateHash(dcall[c].file), c) IN
       /\ hash_db' = r.db
       /\ \E so \in SaveOutcomes :
            /\ hash_file' = IF r.save THEN SaveHashDb(hash_file, r.db, so) ELSE hash_file
            /\ dcall' = [dcall EXCEPT ![c] =
                      [@ EXCEPT !.pc = "done", !.result = r.dup, !.seq = Returned + 1,
                                !.save = IF r.save THEN so ELSE "none",
                                !.overlapped = \E d \in Calls \ {c} : dcall[d].pc = "hashing"]]
    /\ UNCHANGED <<threshold, loaded_db>>
    /\ UNCHANGED <<filterVars, crawlVars>>
    /\ UNCHANGED toolVars

NextDedup ==
    \/ \E c \in Calls : CallIsDuplicate(c)
    \/ \E c \in Calls : ResumeIsDuplicate(c)

SpecDedup == InitDedup /\ [][NextDedup]_vars

-----------------------------------------------------------------------------
(* Claims about ImageFilter (checked under SpecFilter).                     *)

\* The five checks as the contract lists them.
SizeInRange(cfg, f) ==
    f.exists /\ f.size >= cfg.min_file_size /\ f.size <= cfg.max_file_size
DecodesAllowed(cfg, f) ==
    f.exists /\ f.readable /\ f.decodes /\ f.format \in cfg.allowed_formats
DimsInRange(cfg, f) ==
    /\ f.width >= cfg.min_size /\ f.width <= cfg.max_size
    /\ f.height >= cfg.min_size /\ f.height <= cfg.max_size
AspectOk(f) ==
    Min2(f.width, f.height) > 0
    /\ Max2(f.width, f.height) <= 10 * Min2(f.width, f.height)
AllFiveChecks(cfg, f) ==
    /\ SizeInRange(cfg, f)
    /\ DecodesAllowed(cfg, f)
    /\ DimsInRange(cfg, f)
    /\ AspectOk(f)
    /\ f.loads

\* C9: is_valid_image returns True exactly when the five checks (file size
\* in [min_file_size, max_file_size], decodable in an allowed format, both
\* sides in [min_size, max_size], aspect ratio <= 10, full decode) all hold;
\* a 50x50 image is rejected with min_size = 300, a 500x500 JPEG of 50 KB
\* passes, a 20:1 image is rejected.
C9_FilterIsConjunctionOfFiveChecks ==
    probe_result.called =>
        /\ probe_result.val = AllFiveChecks(filter_cfg, probe_file)
        /\ (filter_cfg.min_size = 300 /\ probe_file.exists
              /\ probe_file.width = 50 /\ probe_file.height = 50) => ~probe_result.val
        /\ (filter_cfg = DefaultFilter
              /\ probe_file = ImageFile(51200, "JPEG", 500, 500, TRUE, <<>>))
             => probe_result.val
        /\ (probe_file.exists /\ probe_file.width = 2000 /\ probe_file.height = 100)
             => ~probe_result.val

\* A 500x500 JPEG of 50 KB has been validated by the default filter and passed.
C9_Witness ==
    /\ probe_result.called
    /\ probe_result.val
    /\ filter_cfg = DefaultFilter
    /\ probe_file = ImageFile(51200, "JPEG", 500, 500, TRUE, <<>>)

\* A stat, decode or I/O failure, or a side of zero pixels.
ProbeFails(f) ==
    \/ ~f.exists
    \/ ~f.readable
    \/ ~f.decodes
    \/ ~f.loads
    \/ Min2(f.width, f.height) = 0

\* C10: is_valid_image never raises: for a missing, unreadable, undecodable,
\* truncated or zero-dimension file it returns a boolean, and that boolean
\* is False.
C10_FilterNeverRaises ==
    probe_result.called =>
        /\ ~probe_result.exc
        /\ probe_result.val \in BOOLEAN
        /\ ProbeFails(probe_file) => probe_result.val = FALSE

\* is_valid_image has returned False for a path that holds no file.
C10_Witness ==
    /\ probe_result.called
    /\ probe_file = NoFile
    /\ ~probe_result.exc
    /\ probe_result.val = FALSE

-----------------------------------------------------------------------------
(* Claims about ImageDeduplicator (checked under SpecDedup).                *)

\* The file of call c can be hashed.
Hashable(c) == CalculateHash(dcall[c].file) # NoHash
FpOf(c) == dcall[c].file.fp

\* Entry i of hash_db was inserted by an is_duplicate call of this instance.
InsertedHere(i) == i > Len(loaded_db) /\ i <= Len(hash_db)

ValidKey(k) == ~HexToHash(k).exc

\* C2: whatever the interleaving of overlapping is_duplicate calls, no two
\* files with fingerprints within the threshold are both reported
\* non-duplicate and inserted, and every entry an is_duplicate call inserted
\* is more than the threshold away from every other valid entry.
C2_NoNearDuplicatePairInserted ==
    /\ \A i \in 1..Len(hash_db) : \A j \in 1..Len(hash_db) :
         (i < j /\ InsertedHere(j) /\ ValidKey(hash_db[i].hash) /\ ValidKey(hash_db[j].hash))
           => Hamming(HexToHash(hash_db[i].hash).val, HexToHash(hash_db[j].hash).val)
                > threshold
    /\ \A c \in Calls : \A d \in Calls :
         (c # d /\ dcall[c].pc = "done" /\ dcall[d].pc = "done"
            /\ Hashable(c) /\ Hashable(d)
            /\ Hamming(FpOf(c), FpOf(d)) <= threshold)
           => (dcall[c].result \/ dcall[d].result)

\* A call that resumed while another call was suspended in its hash
\* computation was reported a duplicate of the entry a concurrent call inserted.
C2_Witness ==
    \E c \in Calls : \E d \in Calls :
        /\ c # d
        /\ dcall[c].pc = "done" /\ dcall[d].pc = "done"
        /\ dcall[c].overlapped /\ dcall[c].seq < dcall[d].seq
        /\ ~dcall[c].result /\ dcall[d].result
        /\ FpOf(c) # FpOf(d)
        /\ \E i \in 1..Len(hash_db) : InsertedHere(i) /\ hash_db[i].file = c

\* C4: from an empty index, after is_duplicate has inserted f1, the call for
\* f2 returns True and leaves the single f1 entry when hamming(f1, f2) <= t
\* (f2 = f1 included), and returns False and leaves two entries when
\* hamming(f1, f2) > t.
C4_SecondCallDecidedByHamming ==
    \A c \in Calls : \A d \in Calls :
        ( /\ loaded_db = <<>>
          /\ Returned = 2
          /\ dcall[c].pc = "done" /\ dcall[c].seq = 1 /\ Hashable(c)
          /\ dcall[d].pc = "done" /\ dcall[d].seq = 2 /\ Hashable(d) )
        => /\ ~dcall[c].result
           /\ IF Hamming(FpOf(c), FpOf(d)) <= threshold
              THEN /\ dcall[d].result
                   /\ hash_db = <<[hash |-> HashToHex(FpOf(c)), file |-> c]>>
              ELSE /\ ~dcall[d].result
                   /\ hash_db = <<[hash |-> HashToHex(FpOf(c)), file |-> c],
                                  [hash |-> HashToHex(FpOf(d)), file |-> d]>>

\* On an index that started empty the second call was given a fingerprint
\* that differs from the first within the threshold, and was reported a duplicate.
C4_Witness ==
    \E c \in Calls : \E d \in Calls :
        /\ loaded_db = <<>>
        /\ Returned = 2
        /\ dcall[c].pc = "done" /\ dcall[c].seq = 1 /\ Hashable(c)
        /\ dcall[d].pc = "done" /\ dcall[d].seq = 2 /\ Hashable(d)
        /\ FpOf(c) # FpOf(d)
        /\ Hamming(FpOf(c), FpOf(d)) = threshold
        /\ dcall[d].result
        /\ Len(hash_db) = 1

\* No two entries of the index have the same key.
OneEntryPerFingerprint ==
    \A i \in 1..Len(hash_db) : \A j \in 1..Len(hash_db) :
        i # j => hash_db[i].hash # hash_db[j].hash

\* A step only appends to the index, and a call that returns True or that
\* could not hash its file leaves the index as it was.
InsertOnly ==
    /\ Len(hash_db') >= Len(hash_db)
    /\ \A i \in 1..Len(hash_db) : hash_db'[i] = hash_db[i]
    /\ \A c \in Calls :
         ( /\ dcall[c].pc = "hashing" /\ dcall'[c].pc = "done"
           /\ (dcall'[c].result \/ ~Hashable(c)) )
         => hash_db' = hash_db

\* C22: across any sequence of is_duplicate calls the index holds at most
\* one entry per fingerprint value, an entry once present is never removed
\* and its path never changed, and a call that returns True or whose hash
\* computation fails leaves the index unchanged.
C22_IndexIsInsertOnly == []OneEntryPerFingerprint /\ [][InsertOnly]_vars

\* One call has inserted an entry and a later call, reported a duplicate,
\* has left the index as the first call left it.
C22_Witness ==
    \E c \in Calls : \E d \in Calls :
        /\ dcall[c].pc = "done" /\ dcall[d].pc = "done"
        /\ dcall[c].seq < dcall[d].seq
        /\ ~dcall[c].result /\ Hashable(c)
        /\ dcall[d].result
        /\ Len(hash_db) = Len(loaded_db) + 1
        /\ hash_db[Len(hash_db)] = [hash |-> HashToHex(FpOf(c)), file |-> c]

\* Some entry of the index that parses is within the threshold of fp.
ValidEntryNear(fp) ==
    \E i \in 1..Len(hash_db) :
        /\ ValidKey(hash_db[i].hash)
        /\ Hamming(fp, HexToHash(hash_db[i].hash).val) <= threshold

\* A call that resumes with a hash returns True exactly when a valid entry
\* of the index it finds is within the threshold.
ScanIgnoresCorrupt ==
    \A c \in Calls :
        (dcall[c].pc = "hashing" /\ dcall'[c].pc = "done" /\ Hashable(c))
          => (dcall'[c].result <=> ValidEntryNear(FpOf(c)))

\* C26: a stored entry whose key is no comparable fingerprint never aborts
\* the scan of is_duplicate: it is skipped, the entries after it are still
\* compared, and the call returns what it would return without that entry:
\* True exactly when a valid stored fingerprint is within the threshold.
C26_CorruptEntryIsSkipped == [][ScanIgnoresCorrupt]_vars

\* The index loaded a corrupt entry in front of a valid one, and a call
\* with the fingerprint of the valid one was reported a duplicate.
C26_Witness ==
    /\ Len(loaded_db) = 2
    /\ ~ValidKey(loaded_db[1].hash) /\ ValidKey(loaded_db[2].hash)
    /\ \E c \in Calls :
          /\ dcall[c].pc = "done" /\ dcall[c].seq = 1 /\ Hashable(c)
          /\ HashToHex(FpOf(c)) = loaded_db[2].hash
          /\ dcall[c].result
          /\ hash_db = loaded_db

\* What a process that starts now would load from hash_db_path.
Reloaded == LoadHashDb(hash_file)

InDb(db, e) == \E j \in 1..Len(db) : db[j] = e

\* Entry i of hash_db is prior state for the call that returned last: it was
\* loaded at construction or inserted by an earlier call.
PriorEntry(i) ==
    \/ i < Len(hash_db)
    \/ i = Len(hash_db) /\ \A c \in Calls : dcall[c].seq = Returned => dcall[c].save = "none"

\* C11: the index file is rewritten after every insertion before
\* is_duplicate returns, and whatever happens to the save of the latest
\* insertion (a crash in the middle of the rewrite included) the file, when
\* reloaded, still holds every entry loaded or inserted before it.
C11_PriorEntriesSurviveReload ==
    /\ \A c \in Calls :
         (dcall[c].pc = "done" /\ dcall[c].seq = Returned /\ dcall[c].save # "none")
           => (\/ hash_file = JsonFile(hash_db)
               \/ dcall[c].save = "cut")
    /\ \A i \in 1..Len(hash_db) : PriorEntry(i) => InDb(Reloaded, hash_db[i])

\* Every _save_hash_db of this instance so far wrote the file.
AllSavesOk == \A c \in Calls : dcall[c].save \in {"none", "ok"}

\* C19: after is_duplicate calls whose saves succeeded, a new
\* ImageDeduplicator on the same hash_db_path loads an index equal to this
\* instance's index, and reports every image this instance inserted a duplicate.
C19_ReloadEqualsIndex ==
    AllSavesOk =>
        /\ Reloaded = hash_db
        /\ \A c \in Calls :
             (dcall[c].pc = "done" /\ dcall[c].save = "ok")
               => ScanFrom(Reloaded, FpOf(c), threshold, 1)

\* Two calls have inserted and saved; the file on disk holds both entries.
C19_Witness ==
    /\ \A c \in Calls : dcall[c].pc = "done" /\ dcall[c].save = "ok"
    /\ Len(hash_db) = Len(loaded_db) + MaxCalls
    /\ hash_file.kind = "json"

\* The _save_hash_db of call c failed.
SaveFailed(c) == dcall[c].pc = "done" /\ dcall[c].save \in {"unopened", "cut"}

\* C27: when the write of the index file fails, is_duplicate still returns
\* False for the new fingerprint and the new entry stays in the in-memory
\* index, the file being left without it; a later call of the same instance
\* with a fingerprint within the threshold of it returns True.
C27_SaveFailureKeepsEntryInMemory ==
    \A c \in Calls :
        SaveFailed(c) =>
            /\ ~dcall[c].result
            /\ InDb(hash_db, [hash |-> HashToHex(FpOf(c)), file |-> c])
            /\ \A d \in Calls :
                 ( /\ dcall[d].pc = "done" /\ dcall[d].seq > dcall[c].seq
                   /\ Hashable(d)
                   /\ Hamming(FpOf(c), FpOf(d)) <= threshold )
                 => dcall[d].result

\* The save of the first call failed, its entry is in memory and not in the
\* file, and the second call, with another fingerprint within the
\* threshold, was reported a duplicate.
C27_Witness ==
    \E c \in Calls : \E d \in Calls :
        /\ SaveFailed(c) /\ dcall[c].seq = 1
        /\ dcall[d].pc = "done" /\ dcall[d].seq = 2 /\ Hashable(d)
        /\ FpOf(c) # FpOf(d)
        /\ dcall[d].result
        /\ InDb(hash_db, [hash |-> HashToHex(FpOf(c)), file |-> c])
        /\ ~InDb(Reloaded, [hash |-> HashToHex(FpOf(c)), file |-> c])
        /\ \A i \in 1..Len(loaded_db) :
              ValidKey(loaded_db[i].hash)
                => Hamming(FpOf(d), HexToHash(loaded_db[i].hash).val) > threshold

-----------------------------------------------------------------------------
(* Claims about download_images (checked under Spec).                       *)

\* The coroutines that are past `async with semaphore` and have not left it.
InFlight ==
    {i \in Positions :
        task[i].pc \in {"fetching", "reading", "writing", "filtering", "hashing", "sleeping"}}

Done(i) == task[i].pc = "done"

InResult(i) == urls[i] \in DOMAIN results /\ results[urls[i]] = i

\* The filter accepts what URL i serves.
ServesValid(i) == IsValidImage(DefaultFilter, content[i]).val

\* hash_db holds an entry of another file within the threshold of what URL i serves.
NearEntryOfOther(i) ==
    \E e \in 1..Len(hash_db) :
        /\ hash_db[e].file # i
        /\ ValidKey(hash_db[e].hash)
        /\ Hamming(HexToHash(hash_db[e].hash).val, content[i].fp) <= threshold

\* C1: when download_images returns, a URL is in the result only if its
\* fetch answered 200, its file passed is_valid_image and is_duplicate
\* returned False for it (its fingerprint was inserted), and no file is left
\* on disk for a URL that is not in the result.
C1_ResultValidatedAndRestDeleted ==
    batch = "returned" =>
        /\ \A u \in DOMAIN results :
             LET i == results[u] IN
                /\ urls[i] = u
                /\ task[i].status = "200"
                /\ IsValidImage(DefaultFilter, disk[i]).val
                /\ \E e \in 1..Len(hash_db) : InsertedHere(e) /\ hash_db[e].file = i
        /\ \A i \in Positions : (urls[i] \notin DOMAIN results) => disk[i] = NoFile

\* The first half of C1 alone: what the result maps is fetched with 200,
\* stored whole, accepted by the filter and inserted as a non-duplicate.
ResultOnlyValidated ==
    batch = "returned" =>
        \A u \in DOMAIN results :
             LET i == results[u] IN
                /\ urls[i] = u
                /\ task[i].status = "200"
                /\ disk[i] = content[i]
                /\ IsValidImage(DefaultFilter, disk[i]).val
                /\ \E e \in 1..Len(hash_db) : InsertedHere(e) /\ hash_db[e].file = i

\* The state of the per-URL machine a coroutine is in: Fetching covers the
\* request, the reading of the body, the writing of the file and the
\* backoff before another request; Saved is the file on disk under the
\* filter; Accepted is the file under the duplicate check.
MachineState(t) ==
    CASE t.pc = "pending" -> "Pending"
      [] t.pc \in {"fetching", "reading", "writing", "sleeping"} -> "Fetching"
      [] t.pc = "filtering" -> "Saved"
      [] t.pc = "hashing" -> "Accepted"
      [] t.pc = "done" -> t.outcome
      [] OTHER -> "None"

\* The transitions of the per-URL machine; a failure of any step leads back
\* to Fetching for another attempt or to Failed.
MachineEdges ==
    {<<"Pending", "Fetching">>, <<"Fetching", "Fetching">>, <<"Fetching", "Saved">>,
     <<"Fetching", "Failed">>, <<"Saved", "Accepted">>, <<"Saved", "RejectedFilter">>,
     <<"Saved", "Fetching">>, <<"Saved", "Failed">>, <<"Accepted", "Kept">>,
     <<"Accepted", "RejectedDuplicate">>, <<"Accepted", "Fetching">>,
     <<"Accepted", "Failed">>}

FollowsMachine ==
    \A i \in Positions :
        /\ task[i].pc \notin {"skipped", "raised"} /\ task'[i] # task[i]
              => <<MachineState(task[i]), MachineState(task'[i])>> \in MachineEdges
        /\ Done(i) => task'[i] = task[i]

AllTerminal ==
    /\ \A i \in Positions : Done(i) /\ task[i].outcome \in Terminal
    /\ sem = max_concurrent

C3_AtMostMaxConcurrentInFlight ==
    /\ Cardinality(InFlight) <= max_concurrent
    /\ batch = "running" => sem = max_concurrent - Cardinality(InFlight)

\* The gate is full, one URL sleeps before its retry inside it, and another
\* URL waits outside.
C3_Witness ==
    /\ Cardinality(InFlight) = max_concurrent
    /\ \E i \in Positions : task[i].pc = "sleeping"
    /\ \E i \in Positions : task[i].pc = "pending"

\* C5: a transient failure (exception, 5xx) is followed by another fetch
\* until an attempt answers 200 or retry_attempts fetches have been made,
\* never more; 500, 500, then a valid image with retry_attempts = 3 ends
\* Kept and in the result; a URL failing on every attempt is fetched
\* retry_attempts times and is absent from the result.
C5_RetryUpToRetryAttempts ==
    \A i \in Positions :
        /\ task[i].fetches <= retry_attempts
        /\ (Done(i) /\ task[i].fetches < retry_attempts)
             => (task[i].status = "200" \/ "4xx" \in task[i].seen)
        /\ (Done(i) /\ task[i].status # "200" /\ "4xx" \notin task[i].seen)
             => /\ task[i].fetches = retry_attempts
                /\ task[i].outcome = "Failed"
        /\ ( /\ retry_attempts = 3 /\ Done(i) /\ task[i].fetches = 3
             /\ task[i].seen = {"5xx"} /\ task[i].status = "200"
             /\ ServesValid(i) /\ ~NearEntryOfOther(i) )
             => /\ task[i].outcome = "Kept"
                /\ batch = "returned" => InResult(i)
        /\ (batch = "returned" /\ task[i].outcome = "Failed")
             => urls[i] \notin DOMAIN results

\* With retry_attempts = 3 a URL answered 5xx twice and 200 on the third
\* fetch, and the batch returned it as kept.
C5_Witness ==
    \E i \in Positions :
        /\ retry_attempts = 3
        /\ task[i].fetches = 3
        /\ task[i].seen = {"5xx"}
        /\ task[i].outcome = "Kept"
        /\ batch = "returned"
        /\ InResult(i)

\* A step that starts another fetch of a URL starts it out of the backoff
\* sleep, and a sleep begins only while an attempt is left.
BackoffBetweenFetches ==
    \A i \in Positions :
        /\ (task[i].fetches >= 1 /\ task'[i].fetches = task[i].fetches + 1)
              => task[i].pc = "sleeping"
        /\ task'[i].pc = "sleeping" => task'[i].fetches < retry_attempts

\* C24: between any two consecutive fetches of a URL there is one backoff
\* sleep, whatever the transient failure was (timeout, connection error,
\* 5xx status), and no sleep follows the last attempt.
C24_OneSleepBetweenAttempts == [][BackoffBetweenFetches]_vars

\* C25: when download_images has returned, a URL that used up its
\* retry_attempts attempts without a 200 (its last attempt ended by an
\* exception or by a 5xx status) is Failed and an error-level log event
\* was emitted for it.
C25_ExhaustedUrlIsLogged ==
    batch = "returned" =>
        \A i \in Positions :
            ( /\ Done(i)
              /\ task[i].fetches = retry_attempts
              /\ task[i].status \notin {"200", "404", "403", "410"} )
            => (task[i].outcome = "Failed" /\ task[i].logged)

\* C6: after a fetch answers 404, 403 or 410 there is no further attempt and
\* no backoff sleep, whatever retry_attempts is: the URL is Failed at once,
\* with exactly one fetch when that was its first answer, and is absent
\* from the result.
C6_DefinitiveStatusEndsUrl ==
    \A i \in Positions :
        "4xx" \in task[i].seen =>
            /\ Done(i)
            /\ task[i].outcome = "Failed"
            /\ task[i].status \in {"404", "403", "410"}
            /\ task[i].seen = {"4xx"} => task[i].fetches = 1
            /\ batch = "returned" => urls[i] \notin DOMAIN results

\* With retry_attempts = 3 a URL answered 410 to its first fetch and the
\* batch returned without it.
C6_Witness ==
    \E i \in Positions :
        /\ retry_attempts = 3
        /\ task[i].status = "410"
        /\ task[i].fetches = 1
        /\ task[i].outcome = "Failed"
        /\ batch = "returned"
        /\ urls[i] \notin DOMAIN results


\* What C7 asks of every state: nothing has been raised out of a coroutine
\* or of the batch; the result holds exactly the kept URLs; only a kept URL
\* has left an entry in the index; a URL whose own download went through
\* (200 and no exception in its last attempt) is rejected by the filter or
\* kept on its own merits, unless the index holds a near entry of another
\* file; and for [u1, u2] with u1 a valid image and u2 answering 403 the
\* result is exactly {u1}.
SiblingsUnharmed ==
    /\ batch # "raised"
    /\ \A i \in Positions : task[i].pc # "raised"
    /\ batch = "returned" =>
         DOMAIN results = {urls[i] : i \in {j \in Positions : task[j].outcome = "Kept"}}
    /\ \A e \in 1..Len(hash_db) :
         InsertedHere(e) =>
            hash_db[e].file \in Positions /\ task[hash_db[e].file].outcome = "Kept"
    /\ \A i \in Positions :
         (Done(i) /\ task[i].status = "200" /\ ~task[i].logged) =>
            /\ ~ServesValid(i) => task[i].outcome = "RejectedFilter"
            /\ (ServesValid(i) /\ ~NearEntryOfOther(i)) => task[i].outcome = "Kept"
    /\ ( /\ batch = "returned"
         /\ loaded_db = <<>>
         /\ ServesValid(1) /\ task[1].status = "200" /\ ~task[1].logged
         /\ task[2].status = "403"
         /\ \A k \in Positions \ {1, 2} : task[k].outcome # "Kept" )
        => DOMAIN results = {urls[1]}

\* What C7 asks of every step: the index and downloaded_urls change only in
\* a step that keeps a URL, a file changes only in a step of its own URL,
\* and a URL that has ended stays as it ended.
FailureTouchesNoSibling ==
    /\ (hash_db' # hash_db \/ downloaded_urls' # downloaded_urls)
         => \E j \in Positions : task'[j].outcome = "Kept" /\ task[j].outcome # "Kept"
    /\ \A i \in Positions : task'[i] = task[i] => disk'[i] = disk[i]
    /\ \A i \in Positions : Done(i) => task'[i] = task[i]

\* C7: no failure of one URL (fetch exception, non-200 status, exhausted
\* retries, filter or duplicate rejection, file write or delete error)
\* raises out of download_images or changes what a sibling URL ends as.
C7_FailuresStayLocal == [][FailureTouchesNoSibling /\ SiblingsUnharmed']_vars

\* The batch [u1, u2] returned with u2 refused by 403 and exactly u1 in the result.
C7_Witness ==
    /\ batch = "returned"
    /\ task[2].status = "403"
    /\ task[2].outcome = "Failed"
    /\ task[1].outcome = "Kept"
    /\ DOMAIN results = {urls[1]}

\* URL i answered its only fetch with 200 and nothing was raised in its download.
CleanDownload(i) ==
    task[i].fetches = 1 /\ task[i].status = "200" /\ task[i].seen = {}

\* Positions i < j serve the same acceptable image, nothing else in the
\* batch or in the index loaded at construction does, both downloads went
\* through, and download_images has returned.
TwoIdentical(i, j) ==
    /\ i < j
    /\ batch = "returned"
    /\ loaded_db = <<>>
    /\ content[i] = content[j]
    /\ ServesValid(i)
    /\ \A k \in Positions \ {i, j} : content[k] # content[i]
    /\ CleanDownload(i) /\ CleanDownload(j)

\* C8 as claimed: of two URLs with byte-identical content the first of the
\* list is the one kept, under every interleaving; the second's file is
\* deleted and the second is absent from the result.
C8_FirstOfListIsKept ==
    \A i \in Positions : \A j \in Positions :
        TwoIdentical(i, j) =>
            /\ task[i].outcome = "Kept" /\ InResult(i)
            /\ task[j].outcome = "RejectedDuplicate"
            /\ disk[j] = NoFile
            /\ urls[j] \notin DOMAIN results

\* C8 as amended: of two URLs with byte-identical content exactly one is
\* kept and in the result, the one whose is_duplicate scan ran first, which
\* need not be the first of the list; the other one's file is deleted and
\* the other is absent from the result.
C8_ExactlyOneOfTwoIsKept ==
    \A i \in Positions : \A j \in Positions :
        TwoIdentical(i, j) =>
            \E k \in {i, j} : \E o \in {i, j} \ {k} :
                /\ task[k].outcome = "Kept" /\ InResult(k)
                /\ disk[k] = content[k]
                /\ \E e \in 1..Len(hash_db) :
                     hash_db[e] = [hash |-> HashToHex(content[k].fp), file |-> k]
                /\ task[o].outcome = "RejectedDuplicate"
                /\ disk[o] = NoFile
                /\ urls[o] \notin DOMAIN results

\* Two URLs served the same image and the second of the list is the one kept.
C8_Witness ==
    \E i \in Positions : \E j \in Positions :
        /\ TwoIdentical(i, j)
        /\ task[j].outcome = "Kept"
        /\ task[i].outcome = "RejectedDuplicate"
        /\ disk[i] = NoFile
        /\ InResult(j)

-----------------------------------------------------------------------------
(* SpecDir: remove_duplicates_from_directory on a directory of images.      *)

\* The filter, the index and the crawler while another operation is driven.
CoreIdle ==
    /\ filter_cfg = DefaultFilter
    /\ probe_file = NoFile
    /\ probe_result = NotCalled
    /\ threshold = CrawlThreshold
    /\ hash_file = MissingFile
    /\ hash_db = <<>>
    /\ loaded_db = <<>>
    /\ dcall = <<>>
    /\ CrawlerIdle

InitDir ==
    /\ filter_cfg = DefaultFilter
    /\ probe_file = NoFile
    /\ probe_result = NotCalled
    /\ threshold \in 0..HashBits
    /\ hash_file = MissingFile
    /\ hash_db = <<>>
    /\ loaded_db = <<>>
    /\ dcall = <<>>
    /\ CrawlerIdle
    /\ dir_files \in UNION {[1..n -> DedupFiles] : n \in 0..MaxDirFiles}
    /\ dir_out = DirNotCalled
    /\ ToolsIdleExcept("dir")

\* deduplicator.remove_duplicates_from_directory(directory)
RemoveDuplicates ==
    /\ ~dir_out.called
    /\ \E stuck \in SUBSET (1..Len(dir_files)) :
         LET r == RemoveDuplicatesFromDirectory(dir_files, threshold, stuck) IN
         dir_out' = [called |-> TRUE, removed |-> r.removed, count |-> r.count,
                     stuck |-> stuck]
    /\ UNCHANGED dir_files
    /\ UNCHANGED <<filterVars, dedupVars, crawlVars>>
    /\ ToolsUnchangedExcept("dir")

NextDir == RemoveDuplicates

SpecDir == InitDir /\ [][NextDir]_vars

-----------------------------------------------------------------------------
(* Claims about remove_duplicates_from_directory (checked under SpecDir).   *)

DirHashable(i) == CalculateHash(dir_files[i]) # NoHash

RECURSIVE FirstOfGroup(_)
\* File i opens a group: it has a fingerprint and no earlier file that opens
\* a group is within the threshold of it.
FirstOfGroup(i) ==
    /\ DirHashable(i)
    /\ \A j \in 1..(i - 1) :
         FirstOfGroup(j) => Hamming(dir_files[j].fp, dir_files[i].fp) > threshold

\* C20: after remove_duplicates_from_directory, with every unlink
\* succeeding, of each group of files within the threshold of the group's
\* first file (identical fingerprints included) only the first remains, the
\* value returned is the number of files deleted, and a directory with two
\* identical images ends with fewer files than it started with.
C20_OnlyFirstOfEachGroupRemains ==
    (dir_out.called /\ dir_out.stuck = {}) =>
        /\ \A i \in 1..Len(dir_files) :
             DirHashable(i) => ((i \notin dir_out.removed) <=> FirstOfGroup(i))
        /\ dir_out.count = Cardinality(dir_out.removed)
        /\ (\E i \in 1..Len(dir_files) : \E j \in 1..Len(dir_files) :
               i < j /\ DirHashable(i) /\ dir_files[i] = dir_files[j])
             => Len(dir_files) - Cardinality(dir_out.removed) < Len(dir_files)

-----------------------------------------------------------------------------
(* SpecLabel: one classify_image call on every image and API behaviour.     *)

InitLabel ==
    /\ CoreIdle
    /\ ToolsIdleExcept("label")
    /\ label_in \in LabelInputs
    /\ label_out = NotCalled

\* await labeler.classify_image(image_path)
Classify ==
    /\ ~label_out.called
    /\ LET r == ClassifyImage(label_in) IN
       label_out' = [called |-> TRUE, exc |-> r.exc, val |-> r.val]
    /\ UNCHANGED label_in
    /\ UNCHANGED <<filterVars, dedupVars, crawlVars>>
    /\ ToolsUnchangedExcept("label")

NextLabel == Classify

SpecLabel == InitLabel /\ [][NextLabel]_vars

-----------------------------------------------------------------------------
(* Claims about GPT4VImageLabeler (checked under SpecLabel).                *)

\* C12: classify_image always returns a record, a classification or a
\* record with an error and metadata, and never raises: not when the image
\* cannot be read, the request times out or fails, the API answers a
\* non-200 status or the response is no JSON.
C12_ClassifyNeverRaises ==
    label_out.called =>
        /\ ~label_out.exc
        /\ label_out.val \in {Classification} \cup
              {ErrorRecord(e) : e \in {"api_failed", "json_parse", "timed_out",
                                       "network", "exception"}}

-----------------------------------------------------------------------------
(* SpecSearch: one ImageCrawler.search_images call over NumKeywords         *)
(* keywords, or one search.search_images call.                              *)

InitSearch ==
    /\ CoreIdle
    /\ ToolsIdleExcept("search")
    /\ search_in \in [engine : EngineArgs, max_per_keyword : MaxPerKeywordChoices]
    /\ search_st = SearchIdle
    /\ fn_out = FnNotCalled

\* crawler.search_images(keywords, max_per_keyword, engine) is called.
StartSearch ==
    /\ search_st.pc = "idle"
    /\ ~fn_out.called
    /\ search_st' = [search_st EXCEPT !.pc = "running"]
    /\ UNCHANGED <<search_in, fn_out>>
    /\ UNCHANGED <<filterVars, dedupVars, crawlVars>>
    /\ ToolsUnchangedExcept("search")

\* search_st after the last query of keyword kw: the unique URLs, cut to
\* max_per_keyword, join all_urls; after the last keyword the set of
\* all_urls is returned.
EndOfKeyword(st, us, m) ==
    {[st EXCEPT !.urls = {}, !.step = 1, !.kw = @ + 1,
                !.all_urls = @ \cup kept,
                !.pc = IF st.kw = NumKeywords THEN "done" ELSE "running",
                !.result = IF st.kw = NumKeywords THEN st.all_urls \cup kept ELSE {}]
        : kept \in UniqueUrls(us, m)}

\* One `await self._search_engine_wrapper(...)` of the loop and what
\* follows it up to the next await.
QueryProvider ==
    /\ search_st.pc = "running"
    /\ \E b \in Behaviours :
         LET eng == StepEngine(search_in.engine, search_st.step)
             lim == StepLimit(search_in.engine, search_in.max_per_keyword)
             r   == SearchEngineWrapper(eng, b, lim)
             raw == EngineSearchImages(eng, b, lim)
             st  == [search_st EXCEPT
                       !.queried = @ \cup {<<search_st.kw, eng>>},
                       !.returned = @ \cup (IF raw.exc THEN {} ELSE SeqRange(raw.val)),
                       !.failed = @ \/ b.kind \in FailureKinds,
                       !.raised = @ \/ raw.exc]
         IN
         IF r.exc THEN search_st' = [st EXCEPT !.pc = "raised"]
         ELSE LET us == search_st.urls \cup SeqRange(r.val) IN
              IF search_st.step < StepsPerKeyword(search_in.engine)
              THEN search_st' = [st EXCEPT !.urls = us, !.step = @ + 1]
              ELSE search_st' \in EndOfKeyword(st, us, search_in.max_per_keyword)
    /\ UNCHANGED <<search_in, fn_out>>
    /\ UNCHANGED <<filterVars, dedupVars, crawlVars>>
    /\ ToolsUnchangedExcept("search")

\* await search.search_images(query, engine, limit)
CallSearchFn ==
    /\ ~fn_out.called
    /\ search_st.pc = "idle"
    /\ \E eng \in EngineArgs : \E b \in Behaviours : \E lim \in 1..MaxListLen :
         LET r == SearchImagesFn(eng, b, lim) IN
         fn_out' = [called |-> TRUE, engine |-> eng, kind |-> b.kind,
                    exc |-> r.exc, val |-> r.val, log |-> r.log]
    /\ UNCHANGED <<search_in, search_st>>
    /\ UNCHANGED <<filterVars, dedupVars, crawlVars>>
    /\ ToolsUnchangedExcept("search")

NextSearch ==
    \/ StartSearch
    \/ QueryProvider
    \/ CallSearchFn

SpecSearch == InitSearch /\ [][NextSearch]_vars

-----------------------------------------------------------------------------
(* Claims about the image search (checked under SpecSearch).                *)

AllQueries == {<<k, eng>> : k \in 1..NumKeywords, eng \in Engines}

\* C13: in a mixed search a provider that fails (exception, non-200
\* status, missing key) contributes an empty list and does not fail the
\* call: every provider is still queried for every keyword, and the result
\* holds every URL the other providers returned.
C13_MixedSearchSurvivesProviderFailure ==
    search_in.engine = "mixed" =>
        /\ search_st.pc # "raised"
        /\ search_st.pc = "done" =>
              /\ search_st.queried = AllQueries
              /\ search_st.returned \subseteq search_st.result
              /\ search_st.result \subseteq search_st.returned

\* A mixed search is over in which a provider failed, one by raising, and
\* the result holds what the others returned.
C13_Witness ==
    /\ search_in.engine = "mixed"
    /\ search_st.pc = "done"
    /\ search_st.failed
    /\ search_st.raised
    /\ Cardinality(search_st.result) >= 2
    /\ search_st.result = search_st.returned

\* C14: an unsupported engine name is a hard failure: ValueError leaves
\* search.search_images and ImageCrawler.search_images, and is not turned
\* into an empty list of URLs.
C14_UnsupportedEngineRaises ==
    /\ (fn_out.called /\ fn_out.engine \notin Engines)
         => (fn_out.exc /\ fn_out.val = "ValueError")
    /\ (search_in.engine \notin Engines \cup {"mixed"} /\ search_st.queried # {})
         => search_st.pc = "raised"

\* C15: search.search_images with engine 'serper' never raises on a
\* provider failure: on a timeout or a network error it logs a Serper
\* search error and returns [], and it returns [] on a non-200 status and
\* without SERPER_API_KEY.
C15_SerperFailureGivesEmptyList ==
    (fn_out.called /\ fn_out.engine = "serper") =>
        /\ ~fn_out.exc
        /\ fn_out.kind \in FailureKinds => fn_out.val = <<>>
        /\ fn_out.kind \in {"timeout", "network"} => fn_out.log = "error"

-----------------------------------------------------------------------------
(* SpecCli: one OCRDLPCli.run for every command line and environment.       *)

InitCli ==
    /\ CoreIdle
    /\ ToolsIdleExcept("cli")
    /\ cli_in \in CliInputs
    /\ cli_out = CliNotCalled

\* await cli.run(args)
Run ==
    /\ ~cli_out.called
    /\ LET r == RunCli(cli_in) IN
       cli_out' = [called |-> TRUE, exc |-> r.exc, val |-> r.val, invoked |-> r.invoked]
    /\ UNCHANGED cli_in
    /\ UNCHANGED <<filterVars, dedupVars, crawlVars>>
    /\ ToolsUnchangedExcept("cli")

NextCli == Run

SpecCli == InitCli /\ [][NextCli]_vars

-----------------------------------------------------------------------------
(* Claims about OCRDLPCli (checked under SpecCli).                          *)

\* A required key is missing for the command.
KeyMissing(in) ==
    in.command \in KeyedCommands /\ ~(in.serper_key /\ in.openai_key)

\* The operation of the subcommand fails: a step of it raises, or it has
\* nothing to work on or nothing to show for it.  A search that finds no
\* image is not a failure of the search command.
OperationFails(in) ==
    CASE in.command = "search" ->
            in.search = "raises" \/ (in.search = "urls" /\ in.output = "fails")
      [] in.command = "download" ->
            \/ ~in.mkdir_ok
            \/ in.urls_file \in {"unreadable", "empty"}
            \/ in.urls_file = "absent" /\ in.search # "urls"
            \/ in.download # "files"
      [] in.command = "classify" ->
            \/ ~in.input_exists
            \/ in.classify # "results"
            \/ in.validate_flag /\ in.validation = "raises"
      [] in.command = "pipeline" ->
            \/ ~in.mkdir_ok
            \/ in.search # "urls"
            \/ in.download # "files"
            \/ in.classify # "results"
      [] in.command = "validate" ->
            ~in.input_exists \/ in.validation # "summary"
      [] OTHER -> TRUE

RunMayRaise(in) ==
    \/ in.command = "download"
          /\ (\/ ~in.mkdir_ok
              \/ in.urls_file = "unreadable"
              \/ in.urls_file = "absent" /\ in.search = "raises")
    \/ in.command = "pipeline" /\ ~in.mkdir_ok

-----------------------------------------------------------------------------
(* SpecBatch: one classify_images_batch over a directory of image files.    *)

InitBatch ==
    /\ CoreIdle
    /\ ToolsIdleExcept("batch")
    /\ batch_in \in BatchInputs
    /\ \E old \in {<<>>, <<StaleLine>>} :
          batch_st = [BatchIdleSt EXCEPT !.written = old, !.on_disk = Len(old)]

BatchFrame ==
    /\ UNCHANGED batch_in
    /\ UNCHANGED <<filterVars, dedupVars, crawlVars>>
    /\ ToolsUnchangedExcept("batch")

\* Lines 203-231: the early returns, then open(output_file, 'w').
StartLabelBatch ==
    /\ batch_st.pc = "idle"
    /\ IF ~batch_in.api_key \/ ~batch_in.dir_exists \/ batch_in.images = <<>>
       THEN batch_st' = [batch_st EXCEPT !.pc = "done", !.ret = "none"]
       ELSE batch_st' = [batch_st EXCEPT !.pc = "loop", !.written = <<>>, !.on_disk = 0]
    /\ BatchFrame

\* Lines 232-237: the next image file; await labeler.classify_image.
BeginImage ==
    /\ batch_st.pc = "loop"
    /\ batch_st.i < Len(batch_in.images)
    /\ batch_st' = [batch_st EXCEPT !.pc = "classify"]
    /\ BatchFrame

\* Lines 237-274: the classification returns or raises; the record is
\* written, the file flushed, the record appended to results.
FinishImage ==
    /\ batch_st.pc = "classify"
    /\ LET i   == batch_st.i + 1
           rec == RecordOf(batch_in.images[i], i)
           w   == Append(batch_st.written, rec) IN
       batch_st' = [batch_st EXCEPT !.pc = "loop", !.i = i, !.written = w,
                                    !.on_disk = Flushed(w, batch_st.on_disk),
                                    !.results = Append(batch_st.results, rec)]
    /\ BatchFrame

\* Lines 276-282: the file is closed, the summary generated, results returned.
EndLabelBatch ==
    /\ batch_st.pc = "loop"
    /\ batch_st.i = Len(batch_in.images)
    /\ batch_st' = [batch_st EXCEPT !.pc = "done", !.on_disk = Len(batch_st.written),
                                    !.ret = "list", !.ret_val = batch_st.results]
    /\ BatchFrame

NextBatch == StartLabelBatch \/ BeginImage \/ FinishImage \/ EndLabelBatch

SpecBatch == InitBatch /\ [][NextBatch]_vars

-----------------------------------------------------------------------------
(* Claims about classify_images_batch (checked under SpecBatch).            *)

\* The k-th record is the one record of the k-th image file: the error
\* record of the batch when its classification raised, else what the
\* classification returned.
IsRecordOfImage(rec, k) ==
    /\ rec.order = k
    /\ IF ClassifyImage(batch_in.images[k]).exc
       THEN rec.error = "processing_failed"
       ELSE rec.error = ClassifyImage(batch_in.images[k]).val.error

\* C17: after the i-th image file has been processed the output file holds
\* exactly i lines, all flushed, results holds the same i records, the k-th
\* record is that of the k-th image file (an error record when its
\* classification raised), and the list returned is these records for all
\* the image files.
C17_OneRecordPerImageFlushed ==
    /\ batch_st.pc \in {"loop", "classify"} =>
          /\ Len(batch_st.written) = batch_st.i
          /\ batch_st.on_disk = batch_st.i
          /\ batch_st.results = batch_st.written
          /\ \A k \in 1..batch_st.i : IsRecordOfImage(batch_st.written[k], k)
    /\ batch_st.ret = "list" =>
          /\ batch_st.i = Len(batch_in.images)
          /\ batch_st.ret_val = batch_st.written
          /\ batch_st.on_disk = Len(batch_in.images)
          /\ \A k \in 1..Len(batch_in.images) : IsRecordOfImage(batch_st.ret_val[k], k)

\* A batch has returned in which the classification of the first image file
\* raised and that of a later one did not: the first record is the error
\* record, and the later file has its record.
C17_Witness ==
    /\ batch_st.ret = "list"
    /\ Len(batch_in.images) >= 2
    /\ ClassifyImage(batch_in.images[1]).exc
    /\ ~ClassifyImage(batch_in.images[2]).exc
    /\ batch_st.written[1] = ErrorResult(1)
    /\ batch_st.written[2].error # "processing_failed"
    /\ Len(batch_st.ret_val) = Len(batch_in.images)

-----------------------------------------------------------------------------
(* SpecHttp: one call of get_with_retry or post_with_retry.                 *)

InitHttp ==
    /\ CoreIdle
    /\ ToolsIdleExcept("http")
    /\ http_in \in HttpInputs
    /\ http_st = HttpIdleSt

HttpFrame ==
    /\ UNCHANGED http_in
    /\ UNCHANGED <<filterVars, dedupVars, crawlVars>>
    /\ ToolsUnchangedExcept("http")

\* The wrapper is called: the first attempt is due.
CallWrapper ==
    /\ http_st.pc = "idle"
    /\ http_st' = [http_st EXCEPT !.pc = "attempt", !.attempt_number = 1]
    /\ HttpFrame

\* One attempt: the underlying function is called; its response is
\* returned, or its exception is raised again when the stop is reached
\* (reraise=True), or the wait before the next attempt begins.
Attempt ==
    /\ http_st.pc = "attempt"
    /\ LET n == http_st.attempt_number
           r == Request(http_in, n)
           c == Append(http_st.calls, Underlying(http_in.wrapper)) IN
       http_st' =
           IF ~r.exc THEN [http_st EXCEPT !.pc = "done", !.calls = c, !.result = r]
           ELSE IF Stop(n) THEN [http_st EXCEPT !.pc = "done", !.calls = c, !.result = r]
           ELSE [http_st EXCEPT !.pc = "wait", !.calls = c]
    /\ HttpFrame

\* wait_exponential: the sleep is over, the next attempt is due.
Sleep ==
    /\ http_st.pc = "wait"
    /\ http_st' = [http_st EXCEPT !.pc = "attempt",
                                  !.attempt_number = http_st.attempt_number + 1]
    /\ HttpFrame

NextHttp == CallWrapper \/ Attempt \/ Sleep

SpecHttp == InitHttp /\ [][NextHttp]_vars

-----------------------------------------------------------------------------
(* Claims about http_client (checked under SpecHttp).                       *)

\* The requests among the first three that do not raise.
Answered == {k \in 1..3 : http_in.meets[k] \in HttpResponses}

FirstAnswered == CHOOSE k \in Answered : \A j \in Answered : k <= j

\* C18: the underlying request is called at most 3 times; the wrapper
\* returns the response of the first attempt that does not raise, having
\* made no attempt after it; when all 3 attempts raise it raises the
\* exception of the third.
C18_AtMostThreeAttempts ==
    /\ Len(http_st.calls) <= 3
    /\ \A k \in 1..Len(http_st.calls) : http_st.calls[k] = Underlying(http_in.wrapper)
    /\ http_st.pc = "done" =>
          IF Answered # {}
          THEN /\ Len(http_st.calls) = FirstAnswered
               /\ http_st.result = Ret(http_in.meets[FirstAnswered])
          ELSE /\ Len(http_st.calls) = 3
               /\ http_st.result = RaisedKind(http_in.meets[3])

\* One failure, then success: the wrapper has returned the response of the
\* second request after exactly 2 calls.
C18_Witness ==
    /\ http_st.pc = "done"
    /\ http_in.meets[1] \in HttpExceptions
    /\ http_in.meets[2] \in HttpResponses
    /\ Len(http_st.calls) = 2
    /\ http_st.result = Ret(http_in.meets[2])

-----------------------------------------------------------------------------
(* SpecGroups: get_duplicate_groups on every small index.                   *)

InitGroups ==
    /\ filter_cfg = DefaultFilter
    /\ probe_file = NoFile
    /\ probe_result = NotCalled
    /\ threshold \in 0..HashBits
    /\ hash_file = MissingFile
    /\ hash_db \in Indexes
    /\ loaded_db = hash_db
    /\ dcall = <<>>
    /\ CrawlerIdle
    /\ groups_out = GroupsNotCalled
    /\ ToolsIdleExcept("groups")

\* deduplicator.get_duplicate_groups()
GetGroups ==
    /\ ~groups_out.called
    /\ groups_out' = [called |-> TRUE, groups |-> GetDuplicateGroups(hash_db, threshold)]
    /\ UNCHANGED <<filterVars, dedupVars, crawlVars>>
    /\ ToolsUnchangedExcept("groups")

NextGroups == GetGroups

SpecGroups == InitGroups /\ [][NextGroups]_vars

-----------------------------------------------------------------------------
(* Claims about get_duplicate_groups (checked under SpecGroups).            *)

\* Entries i and j hold fingerprints within the threshold of each other.
Near(i, j) ==
    /\ ValidKey(hash_db[i].hash) /\ ValidKey(hash_db[j].hash)
    /\ Hamming(HexToHash(hash_db[i].hash).val, HexToHash(hash_db[j].hash).val) <= threshold

RECURSIVE IsRepresentative(_)
\* Entry i is not within the threshold of any earlier representative.
IsRepresentative(i) == \A k \in 1..(i - 1) : ~(IsRepresentative(k) /\ Near(k, i))

\* The earliest representative within the threshold of a non-representative.
RepresentativeOf(i) ==
    CHOOSE k \in 1..(i - 1) :
        /\ IsRepresentative(k) /\ Near(k, i)
        /\ \A m \in 1..(k - 1) : ~(IsRepresentative(m) /\ Near(m, i))

\* The entries after k that join the group of representative k.
Joiners(k) ==
    {i \in 1..Len(hash_db) : ~IsRepresentative(i) /\ RepresentativeOf(i) = k}

RECURSIVE Ascending(_)
\* The elements of a set of numbers, smallest first.
Ascending(S) ==
    IF S = {} THEN <<>>
    ELSE LET m == CHOOSE x \in S : \A y \in S : x <= y IN <<m>> \o Ascending(S \ {m})

\* The greedy clustering: one group per representative that has joiners,
\* the representative first.
GreedyGroups ==
    LET reps == Ascending({k \in 1..Len(hash_db) : IsRepresentative(k) /\ Joiners(k) # {}}) IN
    [n \in 1..Len(reps) |->
        [key |-> hash_db[reps[n]].hash,
         files |-> <<hash_db[reps[n]].file>>
                   \o [m \in 1..Cardinality(Joiners(reps[n])) |->
                         hash_db[Ascending(Joiners(reps[n]))[m]].file]]]

\* The files of a group, as a set.
Members(g) == {g.files[m] : m \in 1..Len(g.files)}

\* C23: get_duplicate_groups returns exactly the first-match greedy
\* clustering of the index in iteration order: the groups of the
\* representatives (entries not within the threshold of an earlier
\* representative) that at least one other entry joined, each entry joining
\* the earliest representative within the threshold of it; no entry is in
\* two groups, every group has at least two members, and an entry that is
\* not within the threshold of a group's representative is not in the group.
C23_GroupsAreGreedyClustering ==
    groups_out.called =>
        LET gs == groups_out.groups IN
        /\ gs = GreedyGroups
        /\ \A a \in 1..Len(gs) : \A b \in 1..Len(gs) :
              a # b => Members(gs[a]) \cap Members(gs[b]) = {}
        /\ \A a \in 1..Len(gs) : Len(gs[a].files) >= 2
        /\ \A a \in 1..Len(gs) : \A i \in Members(gs[a]) :
              i = gs[a].files[1] \/ Near(gs[a].files[1], i)

\* The first entry has the second in its group; the third is within the
\* threshold of the second but not of the first, and is in no group.
C23_Witness ==
    /\ groups_out.called
    /\ Len(hash_db) = 3
    /\ Near(1, 2) /\ Near(2, 3) /\ ~Near(1, 3)
    /\ groups_out.groups = <<[key |-> hash_db[1].hash, files |-> <<1, 2>>]>>

-----------------------------------------------------------------------------
(* SpecPipeline: one pipeline_command with the keys set.                    *)

InitPipeline ==
    /\ CoreIdle
    /\ ToolsIdleExcept("pipe")
    /\ pipe_in \in PipelineInputs
    /\ pipe_st = PipeIdleSt

PipeFrame ==
    /\ UNCHANGED pipe_in
    /\ UNCHANGED <<filterVars, dedupVars, crawlVars>>
    /\ ToolsUnchangedExcept("pipe")

\* Lines 168-170: output_dir.mkdir, before the try.
PipelineMkdir ==
    /\ pipe_st.pc = "start"
    /\ pipe_st' = IF pipe_in.mkdir_ok THEN [pipe_st EXCEPT !.pc = "search"]
                  ELSE [pipe_st EXCEPT !.pc = "done", !.ret = "raised"]
    /\ PipeFrame

\* Step 1: await search_images(...)
PipelineSearch ==
    /\ pipe_st.pc = "search"
    /\ pipe_st' = AfterStep(pipe_st, "search", pipe_in.search, "download")
    /\ PipeFrame

\* Step 2: await download_images(urls, ...)
PipelineDownload ==
    /\ pipe_st.pc = "download"
    /\ pipe_st' = AfterStep(pipe_st, "download", pipe_in.download, "classify")
    /\ PipeFrame

\* Step 3: await classify_images_batch(...), then return 0.
PipelineClassify ==
    /\ pipe_st.pc = "classify"
    /\ pipe_st' = AfterStep(pipe_st, "classify", pipe_in.classify, "done")
    /\ PipeFrame

NextPipeline == PipelineMkdir \/ PipelineSearch \/ PipelineDownload \/ PipelineClassify

SpecPipeline == InitPipeline /\ [][NextPipeline]_vars

-----------------------------------------------------------------------------
(* Claims about pipeline_command (checked under SpecPipeline).              *)

PipelineOrder == <<"search", "download", "classify">>

\* What step n meets, and whether it gives back something non-empty.
Meets(n) ==
    CASE n = 1 -> pipe_in.search [] n = 2 -> pipe_in.download [] n = 3 -> pipe_in.classify
NonEmpty(n) == Meets(n) \in {"urls", "files", "results"}

\* C29: pipeline_command runs search, download, classify in that order,
\* a step only after the one before it returned a non-empty result; at the
\* first step that returns an empty result or raises it returns 1 with no
\* later step run, and it returns 0 only when all three steps returned a
\* non-empty result.
C29_PipelineStepsInOrder ==
    LET n == Len(pipe_st.trace) IN
    /\ n <= 3
    /\ \A k \in 1..n : pipe_st.trace[k] = PipelineOrder[k]
    /\ \A k \in 2..n : NonEmpty(k - 1)
    /\ pipe_st.ret = "1" => (n >= 1 /\ ~NonEmpty(n))
    /\ pipe_st.ret = "0" => (n = 3 /\ \A k \in 1..3 : NonEmpty(k))
    /\ (pipe_st.pc = "done" /\ pipe_st.ret # "raised")
          => /\ pipe_st.ret = (IF PipelineCommand(pipe_in).val = 0 THEN "0" ELSE "1")
             /\ {pipe_st.trace[k] : k \in 1..n} = PipelineCommand(pipe_in).invoked

\* The search found URLs, the download kept nothing: the command returned 1
\* after two steps, the classification never ran.
C29_Witness ==
    /\ pipe_st.pc = "done"
    /\ pipe_in.search = "urls" /\ pipe_in.download = "empty" /\ pipe_in.classify = "results"
    /\ pipe_st.trace = <<"search", "download">>
    /\ pipe_st.ret = "1"

-----------------------------------------------------------------------------
(* Claims about successive download_images calls (checked under SpecCalls). *)

\* The URLs an earlier call returned as kept.
KeptBefore == UNION {DOMAIN history[k].kept : k \in 1..Len(history)}

\* The URLs that reached Kept in a call so far.
KeptEver == KeptBefore \cup {urls[i] : i \in {j \in Positions : Kept(j)}}

\* URL u ended an earlier call Failed or rejected, in every call it was in.
EndedUnkept(u) ==
    /\ u \notin KeptBefore
    /\ \E k \in 1..Len(history) : \E o \in Terminal \ {"Kept"} : <<u, o>> \in history[k].ended

\* C30: downloaded_urls is exactly the set of URLs that reached Kept in
\* some call; a URL kept by an earlier call is not fetched in a later call
\* and is absent from that call's result; a URL that ended an earlier call
\* Failed, Rejected-by-filter or Rejected-duplicate gets a coroutine in the
\* later call and has been fetched again when that call returns.
C30_KeptUrlsAreSkippedLater ==
    /\ downloaded_urls = KeptEver
    /\ batch # "idle" =>
         \A i \in Positions :
            /\ urls[i] \in KeptBefore =>
                  /\ task[i].pc = "skipped" /\ task[i].fetches = 0
                  /\ batch = "returned" => urls[i] \notin DOMAIN results
            /\ EndedUnkept(urls[i]) =>
                  /\ task[i].pc # "skipped"
                  /\ batch = "returned" => task[i].fetches >= 1

\* The second call has returned: the URL the first call kept was skipped,
\* the URL the first call failed on was fetched again and is now kept.
C30_Witness ==
    /\ Len(history) = 1
    /\ batch = "returned"
    /\ \E i, j \in Positions :
          /\ urls[i] \in KeptBefore /\ task[i].pc = "skipped"
          /\ <<urls[j], "Failed">> \in history[1].ended
          /\ task[j].outcome = "Kept" /\ task[j].fetches >= 1
          /\ DOMAIN results = {urls[j]}

\* C28: a file returned as kept is never overwritten or deleted by the
\* download of another URL, in the same call or in a later call on the
\* same crawler and output directory: every path of every returned mapping
\* still holds the file it held when it was returned, and every path an
\* is_duplicate call put into the index still holds the image of that
\* fingerprint.
C28_KeptFilesAreNeverOverwritten ==
    /\ \A k \in 1..Len(history) : \A u \in DOMAIN history[k].kept :
          disk[history[k].kept[u].path] = history[k].kept[u].file
    /\ batch = "returned" =>
          \A u \in DOMAIN results : IsValidImage(DefaultFilter, disk[results[u]]).val
    /\ batch \in {"idle", "returned"} =>
          \A n \in 1..Len(hash_db) :
             /\ CalculateHash(disk[hash_db[n].file]) # NoHash
             /\ HashToHex(CalculateHash(disk[hash_db[n].file])) = hash_db[n].hash

====
